---- MODULE Spec2Model ----
(***************************************************************************)
(* Model of generators/common.py: the rack/device placement allocator     *)
(* (TopologyCreator.assign_devices_to_racks) and the interface range       *)
(* expander (expand_interface_range), the device naming of                 *)
(* TopologyCreator.create_devices, the template expansion of               *)
(* TopologyCreator.load_data and the racks of TopologyCreator.create_racks;*)
(* the Create-DC workflow of the service catalog; the bootstrap script.    *)
(*                                                                         *)
(* Device names are sequences of characters, so that split("-"), int()     *)
(* and the zero-padded formatting work on characters as in Python.  Role   *)
(* values are TLA+ strings; Chars gives their characters for lower() and   *)
(* the substring test.                                                     *)
(***************************************************************************)
EXTENDS Integers, Sequences, FiniteSets, TLC

\* Longest device list (self.devices) explored.
MaxDevices == 3

\* Largest number of leaves, and of devices of each other role, in the
\* device lists built from a design.
MaxLeaves == 10

MaxPerRole == 2

\* Longest bracket content of the interface names explored.
MaxContent == 5

\* Longest list of design elements explored, and the quantity of the
\* largest element.
MaxElements == 3
LargeQuantity == 100

\* Longest list of design elements load_data is run on.
MaxLoadElements == 2

\* Device lists made of well-named leaves followed by devices of the other
\* roles: the most leaves, and the most other devices.
MaxRoleLeaves == 3
MaxOthers == 3

\* Longest design a whole build is run on.
MaxBuildElements == 3

\* Number of Create-DC workflows one browser session starts.
MaxWorkflows == 2

\* max_retries of check_infrahub_ready
max_retries == 30

\* Number of units of a rack: the literal 42 of "position = 42 - (device_height - 1)".
RackUnits == 42

\* Default height returned by get_device_height when the device type gives none.
DefaultHeight == 1

\* A tall chassis, so that stacking can run past the bottom of a rack.
TallHeight == 21

---------------------------------------------------------------------------
(* Characters of the role values. *)

Chars(s) ==
  CASE s = "leaf"        -> <<"l","e","a","f">>
    [] s = "border_leaf" -> <<"b","o","r","d","e","r","_","l","e","a","f">>
    [] s = "spine"       -> <<"s","p","i","n","e">>
    [] s = "console"     -> <<"c","o","n","s","o","l","e">>
    [] s = "oob"         -> <<"o","o","b">>
    [] s = "OOB-Console" -> <<"O","O","B","-","C","o","n","s","o","l","e">>
    [] s = "dc_firewall" -> <<"d","c","_","f","i","r","e","w","a","l","l">>

\* str.lower() on one character (the upper-case letters that occur in
\* roles and topology names).
LowerChar(c) ==
  CASE c = "O" -> "o"
    [] c = "B" -> "b"
    [] c = "C" -> "c"
    [] c = "D" -> "d"
    [] OTHER  -> c

\* str.lower()
Lower(cs) == [i \in 1..Len(cs) |-> LowerChar(cs[i])]

\* Python's "sub in s" on strings.
Contains(sub, cs) ==
  \E i \in 0..(Len(cs) - Len(sub)) : SubSeq(cs, i + 1, i + Len(sub)) = sub

\* Index of the last occurrence of sep in cs, 0 if none.
RECURSIVE LastIndexOf(_, _, _)
LastIndexOf(cs, sep, i) ==
  IF i = 0 THEN 0
  ELSE IF cs[i] = sep THEN i
  ELSE LastIndexOf(cs, sep, i - 1)

\* device_name.split("-")[-1]: the characters after the last "-".
LastPart(cs) == SubSeq(cs, LastIndexOf(cs, "-", Len(cs)) + 1, Len(cs))

DigitValue(c) ==
  CASE c = "0" -> 0 [] c = "1" -> 1 [] c = "2" -> 2 [] c = "3" -> 3
    [] c = "4" -> 4 [] c = "5" -> 5 [] c = "6" -> 6 [] c = "7" -> 7
    [] c = "8" -> 8 [] c = "9" -> 9

IsDigit(c) == c \in {"0","1","2","3","4","5","6","7","8","9"}

\* Whether int(token) succeeds, for tokens made of letters and digits:
\* a non-empty string of decimal digits (no sign can follow the last "-").
IntParses(tok) == Len(tok) > 0 /\ \A i \in 1..Len(tok) : IsDigit(tok[i])

\* int(token) for a token of decimal digits.
RECURSIVE IntOf(_)
IntOf(tok) ==
  IF tok = <<>> THEN 0
  ELSE 10 * IntOf(SubSeq(tok, 1, Len(tok) - 1)) + DigitValue(tok[Len(tok)])

\* The longest suffix of cs made of digits.
RECURSIVE TrailingDigits(_)
TrailingDigits(cs) ==
  IF cs = <<>> \/ ~IsDigit(cs[Len(cs)]) THEN <<>>
  ELSE Append(TrailingDigits(SubSeq(cs, 1, Len(cs) - 1)), cs[Len(cs)])

\* Variant: the number is read from the trailing digits of the name
\* (as a pattern such as \d+$ would), so "x1" gives 1 instead of an error.
get_device_number_trailing(name) ==
  LET tok == TrailingDigits(name)
  IN  IF tok # <<>> THEN [raises |-> FALSE, value |-> IntOf(tok)]
                    ELSE [raises |-> TRUE,  value |-> 0]

\* get_device_number: int(device_name.split("-")[-1]).  The result says
\* whether int() raised ValueError and, if not, the number returned.
get_device_number(name) ==
  LET tok == LastPart(name)
  IN  IF IntParses(tok) THEN [raises |-> FALSE, value |-> IntOf(tok)]
                        ELSE [raises |-> TRUE,  value |-> 0]

\* list(range(a, b))
Range(a, b) == [i \in 1..(IF b > a THEN b - a ELSE 0) |-> a + i - 1]

---------------------------------------------------------------------------
(* Device names as create_devices builds them (line 703):                  *)
(* f"{topology_name.lower()}-{role}-{str(counter).zfill(2)}".              *)

DigitChar(n) ==
  CASE n = 0 -> "0" [] n = 1 -> "1" [] n = 2 -> "2" [] n = 3 -> "3"
    [] n = 4 -> "4" [] n = 5 -> "5" [] n = 6 -> "6" [] n = 7 -> "7"
    [] n = 8 -> "8" [] n = 9 -> "9"

\* str(n) for n >= 0
RECURSIVE Str(_)
Str(n) == IF n < 10 THEN <<DigitChar(n)>> ELSE Append(Str(n \div 10), DigitChar(n % 10))

\* cs.zfill(w) for a string of digits
RECURSIVE Zfill(_, _)
Zfill(cs, w) == IF Len(cs) >= w THEN cs ELSE Zfill(<<"0">> \o cs, w)

\* The name with the counter cut to its last two digits.
DeviceName_two_digits(topology, role, counter) ==
  Lower(topology) \o <<"-">> \o role \o <<"-">> \o Zfill(Str(counter % 100), 2)

DeviceName(topology, role, counter) ==
  Lower(topology) \o <<"-">> \o role \o <<"-">> \o Zfill(Str(counter), 2)

---------------------------------------------------------------------------
(* Inputs: the device list self.devices. *)

dc_leaf_01 == <<"d","c","-","l","e","a","f","-","0","1">>

dc_leaf_02 == <<"d","c","-","l","e","a","f","-","0","2">>

dc_leaf_03 == <<"d","c","-","l","e","a","f","-","0","3">>

pod_leaf_1 == <<"p","o","d","-","l","e","a","f","-","1">>

dc_leaf_00 == <<"d","c","-","l","e","a","f","-","0","0">>

dc_leaf_x1 == <<"d","c","-","l","e","a","f","-","x","1">>

dc_node_01 == <<"d","c","-","n","o","d","e","-","0","1">>

\* device.device_type.peers: no peer (height unknown) or one device type
\* with a height attribute.
NoPeers == <<>>

TallPeers == <<[height |-> TallHeight]>>

\* A device as the allocator sees it: name.value, role.value, device_type.peers.
Device(n, r, p) == [name |-> n, role |-> r, peers |-> p]

\* Leaves: ordinals 1, 2, 3, a second ordinal 1 from another topology and
\* without padding, ordinal 0, and a name that ends in no number.
LeafChoices ==
  { Device(dc_leaf_01, "leaf", NoPeers),
    Device(dc_leaf_02, "leaf", TallPeers),
    Device(dc_leaf_03, "leaf", NoPeers),
    Device(pod_leaf_1, "leaf", TallPeers),
    Device(dc_leaf_00, "leaf", NoPeers),
    Device(dc_leaf_x1, "leaf", NoPeers) }

\* Devices of the other roles.  Their names are never parsed, so one name
\* stands for all of them.
OtherChoices ==
  { Device(dc_node_01, "border_leaf", NoPeers),
    Device(dc_node_01, "border_leaf", TallPeers),
    Device(dc_node_01, "spine", NoPeers),
    Device(dc_node_01, "spine", TallPeers),
    Device(dc_node_01, "console", NoPeers),
    Device(dc_node_01, "oob", TallPeers),
    Device(dc_node_01, "OOB-Console", NoPeers),
    Device(dc_node_01, "dc_firewall", NoPeers) }

DeviceChoices == LeafChoices \cup OtherChoices

DeviceLists == UNION {[1..n -> DeviceChoices] : n \in 0..MaxDevices}

\* The n devices create_devices makes for a design element of the given
\* role and quantity n in topology "DC": counters 1..n.
ElementDevices(role, n, peers) ==
  [i \in 1..n |-> Device(DeviceName(<<"D","C">>, Chars(role), i), role, peers)]

\* The device lists of a design with one element per role.
DesignDeviceLists ==
  { ElementDevices("leaf", nl, NoPeers) \o ElementDevices("border_leaf", nb, TallPeers)
      \o ElementDevices("spine", ns, NoPeers) \o ElementDevices("console", nc, NoPeers)
      \o ElementDevices("oob", no, TallPeers) :
    nl \in 0..MaxLeaves, nb \in 0..MaxPerRole, ns \in 0..MaxPerRole,
    nc \in 0..MaxPerRole, no \in 0..MaxPerRole }

\* The device lists of n leaves at most, named as create_devices names
\* them, followed by m devices at most of the other roles in any order.
RoleDeviceLists(n, m) ==
  UNION {{ElementDevices("leaf", nl, NoPeers) \o others :
            others \in UNION {[1..k -> OtherChoices] : k \in 0..m}} :
         nl \in 0..n}

VARIABLES
  devices,        \* self.devices
  pc,             \* position in assign_devices_to_racks
  total_racks,    \* local total_racks
  middle_racks,   \* local middle_racks
  rack_occupancy, \* local rack_occupancy: rack number -> list of entries
  it,             \* 1-based index of the device the current for loop is at
  rack_idx,       \* border_leaf_rack_idx / spine_rack_idx / console_rack_idx / oob_rack_idx
  warnings,       \* calls of self.log.warning, in order
  location,       \* device.location of every device (<<>> while not set here)
  position,       \* device.position of every device (<<>> while not set here)
  batch,          \* the batch of queued device.save tasks
  saved,          \* what batch.execute has saved for every device
  error,          \* the exception that left the function, if any
  rerun,          \* TRUE in a second call on the same devices
  first,          \* outcome of the first call, kept when the second starts
  interface_name, \* argument of expand_interface_range
  ex_pc,          \* position in expand_interface_range
  prefix,         \* local prefix
  suffix,         \* local suffix
  parts,          \* bracket_content.split(',')
  part_idx,       \* 1-based index of the part the for loop is at
  expanded,       \* local expanded
  ex_result,      \* the list returned
  ex_error,       \* the exception that left expand_interface_range, if any
  elements,       \* self.data["design"]["elements"]
  cd_pc,          \* position in create_devices
  el_idx,         \* 1-based index of the element the outer loop is at
  role_counters,  \* local role_counters
  created,        \* the device entries built so far, in order
  device_to_template  \* self.device_to_template

alloc_vars == <<devices, pc, total_racks, middle_racks, rack_occupancy, it, rack_idx,
                warnings, location, position, batch, saved, error, rerun, first>>

expand_vars == <<interface_name, ex_pc, prefix, suffix, parts, part_idx,
                 expanded, ex_result, ex_error>>

naming_vars == <<elements, cd_pc, el_idx, role_counters, created,
                 device_to_template>>

VARIABLES
  design,         \* self.data["design"]["elements"] of a whole build
  racks,          \* names of the racks create_racks has created
  cr_pc           \* position in create_racks

build_vars == <<design, racks, cr_pc>>

\* No build is running.
BuildIdle ==
  /\ design = <<>>
  /\ racks = {}
  /\ cr_pc = "idle"

VARIABLES
  ld_elements,    \* self.data["design"]["elements"], as load_data reads it
  ld_pc,          \* position in load_data
  ld_el,          \* 1-based index of the element the outer loop is at
  ld_if,          \* 1-based index of the interface the inner loop is at
  expanded_interfaces,  \* local expanded_interfaces
  expanded_templates,   \* local expanded_templates
  ld_error        \* the exception that left load_data, if any

load_vars == <<ld_elements, ld_pc, ld_el, ld_if, expanded_interfaces,
               expanded_templates, ld_error>>

\* load_data is not running.
LoadIdle ==
  /\ ld_elements = <<>>
  /\ ld_pc = "idle"
  /\ ld_el = 1
  /\ ld_if = 1
  /\ expanded_interfaces = <<>>
  /\ expanded_templates = <<>>
  /\ ld_error = "none"

VARIABLES
  dc_creation,    \* st.session_state.dc_creation (<<>> while the key is absent)
  wf_count,       \* number of workflows the session has started
  infrahub        \* what the API calls have created on the server

workflow_vars == <<dc_creation, wf_count, infrahub>>

\* The session has started no workflow and the server is empty.
WorkflowIdle ==
  /\ dc_creation = <<>>
  /\ wf_count = 0
  /\ infrahub = [branches |-> {}, datacenters |-> {}, proposed_changes |-> {}]

VARIABLES
  bs_pc,          \* position in main of scripts/bootstrap.py
  attempt,        \* requests check_infrahub_ready has made without a 200
  ready,          \* what check_infrahub_ready returned (<<>> before it returns)
  bs_step,        \* 1-based index of the step the for loop is at
  ran,            \* the commands run so far and whether each succeeded
  returned        \* the value main returned (<<>> before it returns)

bootstrap_vars == <<bs_pc, attempt, ready, bs_step, ran, returned>>

\* main of the bootstrap script is not running.
BootstrapIdle ==
  /\ bs_pc = "idle"
  /\ attempt = 0
  /\ ready = <<>>
  /\ bs_step = 1
  /\ ran = <<>>
  /\ returned = <<>>

vars == <<alloc_vars, expand_vars, naming_vars, load_vars, build_vars, workflow_vars, bootstrap_vars>>

Devs == 1..Len(devices)

NoError == [kind |-> "none", device |-> 0]

NoBatch == [created |-> FALSE, tasks |-> <<>>]

---------------------------------------------------------------------------
(* Grouping by role (lines 385-390).  Groups hold device indices. *)

RoleIs(d, r) == Chars(devices[d].role) = Chars(r)

RoleContains(d, sub) == Contains(Chars(sub), Lower(Chars(devices[d].role)))

DevSeq == [i \in 1..Len(devices) |-> i]

leaf_devices == SelectSeq(DevSeq, LAMBDA d : RoleIs(d, "leaf"))

border_leaf_devices == SelectSeq(DevSeq, LAMBDA d : RoleIs(d, "border_leaf"))

spine_devices == SelectSeq(DevSeq, LAMBDA d : RoleIs(d, "spine"))

\* Variant: the console loop is given the spines again.
console_devices_spines == SelectSeq(DevSeq, LAMBDA d : RoleIs(d, "spine"))

console_devices == SelectSeq(DevSeq, LAMBDA d : RoleContains(d, "console"))

oob_devices == SelectSeq(DevSeq, LAMBDA d : RoleContains(d, "oob"))

Max(a, b) == IF a >= b THEN a ELSE b

\* Variant: the band is sized for the spines only.
middle_device_count_spines == Len(spine_devices)

middle_device_count ==
  Max(Len(spine_devices),
      Len(border_leaf_devices) + Len(console_devices) + Len(oob_devices))

\* Variant: the band starts at the middle rack instead of being centred on it.
middle_start_uncentred(total, count) == total \div 2

\* Variant: the midpoint of the row is rounded up.
middle_start_ceil(total, count) == ((total + 1) \div 2) - (count \div 2)

middle_start(total, count) == (total \div 2) - (count \div 2)

\* Variant: the band starts one rack early, at middle_start itself.
MiddleRacks_zero_based(total, count) ==
  Range(middle_start(total, count), middle_start(total, count) + count)

MiddleRacks(total, count) ==
  Range(middle_start(total, count) + 1, middle_start(total, count) + count + 1)

\* Variant: the early return is never taken.
NoLeafDevices_never(total) == total < 0

\* "if total_racks == 0": the early return.
NoLeafDevices(total) == total = 0

\* get_device_height
get_device_height(d) ==
  IF devices[d].peers # <<>> THEN devices[d].peers[1].height ELSE DefaultHeight

\* "position = 42 - (device_height - 1)": top of rack.
TopPosition(h) == RackUnits - (h - 1)

\* Variant: max instead of min.
LowestPos_max(entries) ==
  CHOOSE p \in {entries[i].position : i \in 1..Len(entries)} :
    \A i \in 1..Len(entries) : p >= entries[i].position

\* min(pos for _, pos, _ in rack_occupancy[rack_num])
LowestPos(entries) ==
  CHOOSE p \in {entries[i].position : i \in 1..Len(entries)} :
    \A i \in 1..Len(entries) : p <= entries[i].position

\* Variant: a placement also counts the devices whose stored location is
\* the rack, at their stored position.
RackEntries_stored(r) ==
  rack_occupancy[r] \o
    LET ds == SelectSeq(DevSeq, LAMBDA d : location[d] = <<r>>)
    IN  [i \in 1..Len(ds) |->
           [device |-> ds[i], position |-> position[ds[i]][1],
            height |-> get_device_height(ds[i])]]

\* The entries a placement looks at: this call's occupancy of the rack.
RackEntries(r) == rack_occupancy[r]

\* Variant: the device is put one unit below, whatever its height.
PlacePosition_1U(entries, h) ==
  IF entries # <<>> THEN LowestPos(entries) - 1 ELSE TopPosition(h)

\* Position of a device of height h put in a rack holding entries.
PlacePosition(entries, h) ==
  IF entries # <<>> THEN LowestPos(entries) - h ELSE TopPosition(h)

\* Variant: ">=" for ">".
ExceedsRackCount_ge(rack_num, total) == rack_num >= total

\* Variant: one rack too many is let through.
ExceedsRackCount_late(rack_num, total) == rack_num > total + 1

\* "if rack_num > total_racks"
ExceedsRackCount(rack_num, total) == rack_num > total

Entry(d, p, h) == [device |-> d, position |-> p, height |-> h]

Warning(m, d) == [msg |-> m, device |-> d]

Raise(k, d) ==
  /\ pc' = "raised"
  /\ error' = [kind |-> k, device |-> d]

---------------------------------------------------------------------------
\* The object before the first call of assign_devices_to_racks.
BeforeCall ==
  /\ pc = "start"
  /\ total_racks = 0
  /\ middle_racks = <<>>
  /\ rack_occupancy = <<>>
  /\ it = 1
  /\ rack_idx = 0
  /\ warnings = <<>>
  /\ location = [d \in Devs |-> <<>>]
  /\ position = [d \in Devs |-> <<>>]
  /\ batch = NoBatch
  /\ saved = [d \in Devs |-> <<>>]
  /\ error = NoError
  /\ rerun = FALSE
  /\ first = <<>>

\* expand_interface_range is not running.
ExpandIdle ==
  /\ interface_name = <<>>
  /\ ex_pc = "idle"
  /\ prefix = <<>>
  /\ suffix = <<>>
  /\ parts = <<>>
  /\ part_idx = 1
  /\ expanded = <<>>
  /\ ex_result = <<>>
  /\ ex_error = "none"

\* create_devices is not running.
NamingIdle ==
  /\ elements = <<>>
  /\ cd_pc = "idle"
  /\ el_idx = 1
  /\ role_counters = <<>>
  /\ created = <<>>
  /\ device_to_template = <<>>

Init == devices \in DeviceLists /\ BeforeCall /\ ExpandIdle /\ NamingIdle /\ LoadIdle /\ BuildIdle /\ WorkflowIdle /\ BootstrapIdle

\* The devices are those of a design, named by create_devices.
InitRoles ==
  /\ devices \in RoleDeviceLists(MaxRoleLeaves, MaxOthers)
  /\ BeforeCall /\ ExpandIdle /\ NamingIdle /\ LoadIdle
  /\ BuildIdle
  /\ WorkflowIdle
  /\ BootstrapIdle

InitDesign == devices \in DesignDeviceLists /\ BeforeCall /\ ExpandIdle /\ NamingIdle /\ LoadIdle /\ BuildIdle /\ WorkflowIdle /\ BootstrapIdle

\* Lines 382-411: group the devices, return early without leaves, otherwise
\* compute the middle racks and the empty occupancy table.
Plan ==
  /\ pc = "start"
  /\ IF NoLeafDevices(Len(leaf_devices))
     THEN /\ warnings' = Append(warnings, Warning("No leaf devices found", 0))
          /\ pc' = "done"
          /\ UNCHANGED <<total_racks, middle_racks, rack_occupancy>>
     ELSE /\ total_racks' = Len(leaf_devices)
          /\ middle_racks' = MiddleRacks(Len(leaf_devices), middle_device_count)
          /\ rack_occupancy' = [r \in 1..Len(leaf_devices) |-> <<>>]
          /\ pc' = "leaf"
          /\ UNCHANGED warnings
  /\ UNCHANGED <<devices, it, rack_idx, location, position, batch, saved,
                 error, rerun, first>>
  /\ UNCHANGED <<expand_vars, naming_vars, load_vars, build_vars, workflow_vars, bootstrap_vars>>

\* Lines 431-442: one iteration of "for device in leaf_devices", or its end.
AssignLeaf ==
  /\ pc = "leaf"
  /\ IF it > Len(leaf_devices)
     THEN /\ pc' = "border_leaf"
          /\ it' = 1
          /\ rack_idx' = 0
          /\ UNCHANGED <<rack_occupancy, warnings, error>>
     ELSE LET d   == leaf_devices[it]
              num == get_device_number(devices[d].name)
              h   == get_device_height(d)
          IN  IF num.raises
              THEN /\ Raise("ValueError", d)
                   /\ UNCHANGED <<rack_occupancy, warnings, it, rack_idx>>
              ELSE IF ExceedsRackCount(num.value, total_racks)
              THEN /\ warnings' = Append(warnings, Warning("exceeds rack count", d))
                   /\ it' = it + 1
                   /\ UNCHANGED <<rack_occupancy, pc, error, rack_idx>>
              ELSE IF num.value \notin DOMAIN rack_occupancy
              THEN /\ Raise("KeyError", d)
                   /\ UNCHANGED <<rack_occupancy, warnings, it, rack_idx>>
              ELSE /\ rack_occupancy' =
                        [rack_occupancy EXCEPT ![num.value] =
                            Append(@, Entry(d, TopPosition(h), h))]
                   /\ it' = it + 1
                   /\ UNCHANGED <<pc, warnings, error, rack_idx>>
  /\ UNCHANGED <<devices, total_racks, middle_racks, location, position,
                 batch, saved, rerun, first>>
  /\ UNCHANGED <<expand_vars, naming_vars, load_vars, build_vars, workflow_vars, bootstrap_vars>>

\* One iteration of a middle-rack loop over group (lines 444-522), or its end.
AssignMiddle(phase, group, next, msg) ==
  /\ pc = phase
  /\ IF it > Len(group)
     THEN /\ pc' = next
          /\ it' = 1
          /\ rack_idx' = 0
          /\ UNCHANGED <<rack_occupancy, warnings, error>>
     ELSE LET d == group[it]
              h == get_device_height(d)
          IN  IF rack_idx >= Len(middle_racks)
              THEN \* warning, then break
                   /\ warnings' = Append(warnings, Warning(msg, d))
                   /\ pc' = next
                   /\ it' = 1
                   /\ rack_idx' = 0
                   /\ UNCHANGED <<rack_occupancy, error>>
              ELSE LET rack_num == middle_racks[rack_idx + 1]
                   IN  IF rack_num \notin DOMAIN rack_occupancy
                       THEN /\ Raise("KeyError", d)
                            /\ UNCHANGED <<rack_occupancy, warnings, it, rack_idx>>
                       ELSE /\ rack_occupancy' =
                                 [rack_occupancy EXCEPT ![rack_num] =
                                    Append(@, Entry(d, PlacePosition(RackEntries(rack_num), h), h))]
                            /\ rack_idx' = rack_idx + 1
                            /\ it' = it + 1
                            /\ UNCHANGED <<pc, warnings, error>>
  /\ UNCHANGED <<devices, total_racks, middle_racks, location, position,
                 batch, saved, rerun, first>>
  /\ UNCHANGED <<expand_vars, naming_vars, load_vars, build_vars, workflow_vars, bootstrap_vars>>

\* Lines 444-462
AssignBorderLeaf ==
  AssignMiddle("border_leaf", border_leaf_devices, "spine",
               "Not enough middle racks for border leaf")

\* Lines 464-482
AssignSpine ==
  AssignMiddle("spine", spine_devices, "console",
               "Not enough middle racks for spine")

\* Lines 484-502
AssignConsole ==
  AssignMiddle("console", console_devices, "oob",
               "Not enough middle racks for console device")

\* Lines 504-522
AssignOob ==
  AssignMiddle("oob", oob_devices, "persist",
               "Not enough middle racks for OOB device")

\* The entries of racks 1..r in the order the update loop visits them
\* (rack_occupancy.items() is in insertion order, 1..total_racks).
RECURSIVE Placements(_, _)
Placements(occ, r) ==
  IF r = 0 THEN <<>>
  ELSE Placements(occ, r - 1) \o
       [i \in 1..Len(occ[r]) |->
          [device |-> occ[r][i].device, rack |-> r, position |-> occ[r][i].position]]

\* Variant: every device gets what the loop assigned last.
LastPlacement_any(pl, d) == IF pl = <<>> THEN <<>> ELSE <<pl[Len(pl)]>>

\* The last assignment the update loop makes to device d, if any.
LastPlacement(pl, d) ==
  LET idxs == {i \in 1..Len(pl) : pl[i].device = d}
  IN  IF idxs = {} THEN <<>>
      ELSE <<pl[CHOOSE i \in idxs : \A j \in idxs : j <= i]>>

\* Lines 524-544: create the batch, set location and position of every
\* device of every occupied rack and queue its save.
UpdateDevices ==
  /\ pc = "persist"
  /\ LET pl == Placements(rack_occupancy, total_racks)
     IN  /\ location' = [d \in Devs |->
                IF LastPlacement(pl, d) = <<>> THEN location[d]
                ELSE <<LastPlacement(pl, d)[1].rack>>]
         /\ position' = [d \in Devs |->
                IF LastPlacement(pl, d) = <<>> THEN position[d]
                ELSE <<LastPlacement(pl, d)[1].position>>]
         /\ batch' = [created |-> TRUE,
                      tasks |-> [i \in 1..Len(pl) |-> pl[i].device]]
  /\ pc' = "execute"
  /\ UNCHANGED <<devices, total_racks, middle_racks, rack_occupancy, it,
                 rack_idx, warnings, saved, error, rerun, first>>
  /\ UNCHANGED <<expand_vars, naming_vars, load_vars, build_vars, workflow_vars, bootstrap_vars>>

\* Lines 546-548: batch.execute() runs every queued device.save.
ExecuteBatch ==
  /\ pc = "execute"
  /\ saved' = [d \in Devs |->
        IF \E i \in 1..Len(batch.tasks) : batch.tasks[i] = d
        THEN <<[location |-> location[d], position |-> position[d]]>>
        ELSE saved[d]]
  /\ pc' = "done"
  /\ UNCHANGED <<devices, total_racks, middle_racks, rack_occupancy, it,
                 rack_idx, warnings, location, position, batch, error,
                 rerun, first>>
  /\ UNCHANGED <<expand_vars, naming_vars, load_vars, build_vars, workflow_vars, bootstrap_vars>>

\* assign_devices_to_racks is called again on the same object (a retry):
\* the locals start afresh, the devices keep what the first call wrote.
CallAgain ==
  /\ pc \in {"done", "raised"}
  /\ ~rerun
  /\ rerun' = TRUE
  /\ first' = <<[pc |-> pc, rack_occupancy |-> rack_occupancy,
                 location |-> location, position |-> position,
                 error |-> error]>>
  /\ pc' = "start"
  /\ total_racks' = 0
  /\ middle_racks' = <<>>
  /\ rack_occupancy' = <<>>
  /\ it' = 1
  /\ rack_idx' = 0
  /\ batch' = NoBatch
  /\ error' = NoError
  /\ UNCHANGED <<devices, warnings, location, position, saved>>
  /\ UNCHANGED <<expand_vars, naming_vars, load_vars, build_vars, workflow_vars, bootstrap_vars>>

Next ==
  \/ Plan
  \/ AssignLeaf
  \/ AssignBorderLeaf
  \/ AssignSpine
  \/ AssignConsole
  \/ AssignOob
  \/ UpdateDevices
  \/ ExecuteBatch
  \/ CallAgain

Spec == Init /\ [][Next]_vars

SpecDesign == InitDesign /\ [][Next]_vars

SpecRoles == InitRoles /\ [][Next]_vars

---------------------------------------------------------------------------
(* expand_interface_range (lines 13-55).                                   *)

\* The characters \w matches, among those of the names explored.
IsWordChar(c) ==
  \/ IsDigit(c)
  \/ c = "_"
  \/ c \in {"a","b","c","d","e","f","g","h","i","j","k","l","m",
            "n","o","p","q","r","s","t","u","v","w","x","y","z"}
  \/ c \in {"A","B","C","D","E","F","G","H","I","J","K","L","M",
            "N","O","P","Q","R","S","T","U","V","W","X","Y","Z"}

\* The character class [\w,-] of RANGE_PATTERN.
IsClassChar(c) == IsWordChar(c) \/ c \in {",", "-"}

\* The first index after i whose character is outside the class, or
\* Len(cs) + 1: where the greedy run [\w,-]* started after cs[i] must stop.
RECURSIVE RunEnd(_, _)
RunEnd(cs, i) ==
  IF i + 1 > Len(cs) \/ ~IsClassChar(cs[i + 1]) THEN i + 1 ELSE RunEnd(cs, i + 1)

\* RANGE_PATTERN matches at index i: "[", a run of class characters holding
\* at least one "-" or ",", then "]".
MatchesAt(cs, i) ==
  /\ cs[i] = "["
  /\ RunEnd(cs, i) <= Len(cs)
  /\ cs[RunEnd(cs, i)] = "]"
  /\ \E k \in (i + 1)..(RunEnd(cs, i) - 1) : cs[k] \in {"-", ","}

\* RANGE_PATTERN.search(cs): the leftmost match, as the indexes of its
\* brackets.
RangeSearch(cs) ==
  IF \E i \in 1..Len(cs) : MatchesAt(cs, i)
  THEN LET i == CHOOSE k \in 1..Len(cs) :
                  MatchesAt(cs, k) /\ \A m \in 1..(k - 1) : ~MatchesAt(cs, m)
       IN [found |-> TRUE, open |-> i, close |-> RunEnd(cs, i)]
  ELSE [found |-> FALSE, open |-> 0, close |-> 0]

\* cs.split(sep) for a one-character separator.
RECURSIVE Split(_, _)
Split(cs, sep) ==
  IF \E i \in 1..Len(cs) : cs[i] = sep
  THEN LET i == CHOOSE k \in 1..Len(cs) :
                  cs[k] = sep /\ \A m \in 1..(k - 1) : cs[m] # sep
       IN <<SubSeq(cs, 1, i - 1)>> \o Split(SubSeq(cs, i + 1, Len(cs)), sep)
  ELSE <<cs>>

\* cs.isdigit()
isdigit(cs) == Len(cs) > 0 /\ \A i \in 1..Len(cs) : IsDigit(cs[i])

\* The names a part "a-b" appends, counting up to b but not including it.
RangeNames_exclusive(pre, a, b, suf) ==
  LET r == Range(a, b) IN [k \in 1..Len(r) |-> pre \o Str(r[k]) \o suf]

\* The names a part "a-b" appends (lines 44-45).
RangeNames(pre, a, b, suf) ==
  LET r == Range(a, b + 1) IN [k \in 1..Len(r) |-> pre \o Str(r[k]) \o suf]

\* The name of a bare digit part, were it formatted as a number.
BareName_int(pre, part, suf) == pre \o Str(IntOf(part)) \o suf

\* The name a bare digit part appends (line 50).
BareName(pre, part, suf) == pre \o part \o suf

\* The list returned after the loop, without the fallback.
ReturnValue_expanded(exp, name) == exp

\* The list returned after the loop (line 55).
ReturnValue(exp, name) == IF exp # <<>> THEN exp ELSE <<name>>

\* The wrappers put around a bracket content.
BracketOnly(c) == <<"E", "[">> \o c \o <<"]">>
BracketSuffix(c) == <<"E", "[">> \o c \o <<"]", "x">>
NoBracket(c) == <<"E">> \o c
Unclosed(c) == <<"E", "[">> \o c
DotInside(c) == <<"E", "[", ".">> \o c \o <<"]">>
TwoBrackets(c) == <<"E", "[">> \o c \o <<"]", "[", "1", "-", "2", "]">>

ContentAlphabet == {"0", "1", "-", ",", "a"}

\* The bracket contents of n characters at most.
ContentStrings(n) == UNION {[1..k -> ContentAlphabet] : k \in 0..n}

\* The names built around a bracket content.
InterfaceNames(c) ==
  {BracketOnly(c), BracketSuffix(c), NoBracket(c), Unclosed(c),
   DotInside(c), TwoBrackets(c)}

\* expand_interface_range is about to run on some interface name.
InitExpand ==
  /\ devices = <<>>
  /\ BeforeCall
  /\ \E c \in ContentStrings(MaxContent) : interface_name \in InterfaceNames(c)
  /\ ex_pc = "call"
  /\ prefix = <<>>
  /\ suffix = <<>>
  /\ parts = <<>>
  /\ part_idx = 1
  /\ expanded = <<>>
  /\ ex_result = <<>>
  /\ ex_error = "none"
  /\ NamingIdle
  /\ LoadIdle
  /\ BuildIdle
  /\ WorkflowIdle
  /\ BootstrapIdle

\* Lines 25-39: the search, then the locals of the loop.
ExpandCall ==
  /\ ex_pc = "call"
  /\ LET match == RangeSearch(interface_name)
     IN IF ~match.found
        THEN /\ ex_pc' = "returned"
             /\ ex_result' = <<interface_name>>
             /\ UNCHANGED <<prefix, suffix, parts>>
        ELSE /\ ex_pc' = "loop"
             /\ prefix' = SubSeq(interface_name, 1, match.open - 1)
             /\ suffix' = SubSeq(interface_name, match.close + 1,
                                 Len(interface_name))
             /\ parts' = Split(SubSeq(interface_name, match.open + 1,
                                      match.close - 1), ",")
             /\ UNCHANGED ex_result
  /\ UNCHANGED <<interface_name, part_idx, expanded, ex_error>>
  /\ UNCHANGED <<alloc_vars, naming_vars, load_vars, build_vars, workflow_vars, bootstrap_vars>>

\* Lines 40-53: one iteration of the loop over the parts.
ExpandPart ==
  /\ ex_pc = "loop"
  /\ part_idx <= Len(parts)
  /\ LET part == parts[part_idx]
         pair == Split(part, "-")
     IN IF Contains(<<"-">>, part)
        THEN IF Len(pair) # 2
             THEN \* start, end = part.split('-') cannot unpack
                  /\ ex_pc' = "raised"
                  /\ ex_error' = "ValueError"
                  /\ UNCHANGED <<expanded, part_idx, ex_result>>
             ELSE IF isdigit(pair[1]) /\ isdigit(pair[2])
                  THEN /\ expanded' = expanded \o RangeNames(prefix, IntOf(pair[1]),
                                                             IntOf(pair[2]), suffix)
                       /\ part_idx' = part_idx + 1
                       /\ UNCHANGED <<ex_pc, ex_result, ex_error>>
                  ELSE /\ ex_pc' = "returned"
                       /\ ex_result' = <<interface_name>>
                       /\ UNCHANGED <<expanded, part_idx, ex_error>>
        ELSE IF isdigit(part)
             THEN /\ expanded' = Append(expanded, BareName(prefix, part, suffix))
                  /\ part_idx' = part_idx + 1
                  /\ UNCHANGED <<ex_pc, ex_result, ex_error>>
             ELSE /\ ex_pc' = "returned"
                  /\ ex_result' = <<interface_name>>
                  /\ UNCHANGED <<expanded, part_idx, ex_error>>
  /\ UNCHANGED <<interface_name, prefix, suffix, parts>>
  /\ UNCHANGED <<alloc_vars, naming_vars, load_vars, build_vars, workflow_vars, bootstrap_vars>>

\* Line 55: the loop is over.
ExpandReturn ==
  /\ ex_pc = "loop"
  /\ part_idx > Len(parts)
  /\ ex_pc' = "returned"
  /\ ex_result' = ReturnValue(expanded, interface_name)
  /\ UNCHANGED <<interface_name, prefix, suffix, parts, part_idx, expanded,
                 ex_error>>
  /\ UNCHANGED <<alloc_vars, naming_vars, load_vars, build_vars, workflow_vars, bootstrap_vars>>

NextExpand ==
  \/ ExpandCall
  \/ ExpandPart
  \/ ExpandReturn

SpecExpand == InitExpand /\ [][NextExpand]_vars

---------------------------------------------------------------------------
(* Vocabulary of the properties, stated on the inputs and the state       *)
(* without the operators of the allocation above.                          *)

IsLeaf(d) == devices[d].role = "leaf"

\* Height of a device as its device type gives it, 1 when it gives none.
HeightOf(d) ==
  IF Len(devices[d].peers) = 0 THEN 1 ELSE devices[d].peers[1].height

\* The leaf names whose last "-" token is a number, and that number.
NumericLeafNames == {dc_leaf_01, dc_leaf_02, dc_leaf_03, pod_leaf_1, dc_leaf_00}

Ordinal(name) ==
  CASE name = dc_leaf_01 -> 1
    [] name = pod_leaf_1 -> 1
    [] name = dc_leaf_02 -> 2
    [] name = dc_leaf_03 -> 3
    [] name = dc_leaf_00 -> 0

HasOrdinal(d) == IsLeaf(d) /\ devices[d].name \in NumericLeafNames

Leaves == {d \in Devs : IsLeaf(d)}

\* The placement loops have all run to their end.
PlacementsComputed == pc \in {"persist", "execute", "done"} /\ total_racks > 0

\* The call has got past "start" without the early return.
Planned == pc # "start" /\ total_racks > 0

\* Every middle-rack index is the number of a rack.
MiddleRacksValid ==
  \A i \in 1..Len(middle_racks) : middle_racks[i] \in 1..total_racks

\* Entries of device d in rack r, as indices into the rack's list.
EntriesOf(d, r) == {i \in 1..Len(rack_occupancy[r]) : rack_occupancy[r][i].device = d}

\* Number of entries of device d over all racks.
RECURSIVE SumOver(_, _)
SumOver(f, S) ==
  IF S = {} THEN 0
  ELSE LET x == CHOOSE y \in S : TRUE IN f[x] + SumOver(f, S \ {x})

EntryCount(d) ==
  SumOver([r \in DOMAIN rack_occupancy |-> Cardinality(EntriesOf(d, r))],
          DOMAIN rack_occupancy)

\* The leaf loop has dealt with leaf d (it placed it, skipped it or raised on it).
LeafHandled(d) ==
  LET k == CHOOSE i \in 1..Len(leaf_devices) : leaf_devices[i] = d
  IN  /\ IsLeaf(d)
      /\ total_racks > 0
      /\ \/ pc = "leaf" /\ k < it
         \/ pc \in {"border_leaf", "spine", "console", "oob", "persist", "execute", "done"}
         \/ pc = "raised" /\ (IsLeaf(error.device) => k <= it)

\* Units p..p+h-1 and q..q+g-1 have no unit in common.
Disjoint(p, h, q, g) == p + h - 1 < q \/ q + g - 1 < p

NoOverlap ==
  \A r \in DOMAIN rack_occupancy :
    \A i, j \in 1..Len(rack_occupancy[r]) :
      i # j => Disjoint(rack_occupancy[r][i].position, rack_occupancy[r][i].height,
                        rack_occupancy[r][j].position, rack_occupancy[r][j].height)

LeafOrdinalsDistinct ==
  \A d, e \in Leaves :
    (d # e /\ HasOrdinal(d) /\ HasOrdinal(e))
      => Ordinal(devices[d].name) # Ordinal(devices[e].name)

---------------------------------------------------------------------------
\* C1 (as stated): once the placements are computed and every middle-rack
\* index is in 1..total_racks, no two entries of a rack overlap, whatever
\* the device names.
C1_NoOverlapAnyNames ==
  (PlacementsComputed /\ MiddleRacksValid) => NoOverlap

\* C1 (amended): once the placements are computed, every middle-rack index
\* is in 1..total_racks and no two leaves have the same ordinal, no two
\* entries of a rack overlap.
C1_NoOverlap ==
  (PlacementsComputed /\ MiddleRacksValid /\ LeafOrdinalsDistinct) => NoOverlap

\* A rack holds a leaf and two stacked devices, one of them tall.
C1_Witness ==
  /\ PlacementsComputed /\ MiddleRacksValid /\ LeafOrdinalsDistinct
  /\ \E r \in DOMAIN rack_occupancy :
       /\ Len(rack_occupancy[r]) >= 3
       /\ \E i \in 2..Len(rack_occupancy[r]) : rack_occupancy[r][i].height > 1

C3_SecondCallSame ==
  (rerun /\ pc \in {"done", "raised"})
    => /\ first[1].pc = pc
       /\ first[1].rack_occupancy = rack_occupancy
       /\ first[1].location = location
       /\ first[1].position = position
       /\ first[1].error = error

\* The second call has ended and re-placed devices the first call had placed
\* and stacked.
C3_Witness ==
  /\ rerun /\ pc = "done"
  /\ \E d \in Devs : first[1].position[d] # <<>> /\ position[d] # <<>>
  /\ \E r \in DOMAIN rack_occupancy : Len(rack_occupancy[r]) >= 2

\* A leaf whose name ends in a number above the rack count.
OverCapacity(d) == HasOrdinal(d) /\ Ordinal(devices[d].name) > Cardinality(Leaves)

\* The device the leaf loop is about to handle, 0 if none.
CurrentLeaf ==
  IF pc = "leaf" /\ it <= Len(leaf_devices) THEN leaf_devices[it] ELSE 0

HasWarning(m, d) == \E i \in 1..Len(warnings) : warnings[i] = [msg |-> m, device |-> d]

NothingUpdated ==
  /\ \A d \in Devs : location[d] = <<>> /\ position[d] = <<>> /\ saved[d] = <<>>
  /\ ~batch.created

C4_Skipped ==
  \A d \in Devs :
    (OverCapacity(d) /\ LeafHandled(d))
      => /\ EntryCount(d) = 0
         /\ HasWarning("exceeds rack count", d)
         /\ location[d] = <<>> /\ position[d] = <<>> /\ saved[d] = <<>>
         /\ error.device # d

C4_SkipStep ==
  (CurrentLeaf # 0 /\ OverCapacity(CurrentLeaf))
    => /\ pc' = "leaf"
       /\ it' = it + 1
       /\ error' = NoError
       /\ rack_occupancy' = rack_occupancy
       /\ warnings' = Append(warnings, [msg |-> "exceeds rack count", device |-> CurrentLeaf])

\* C4: a leaf whose ordinal exceeds total_racks is skipped: the step that
\* handles it only logs a warning and moves on to the next leaf without
\* raising, and from then on the leaf is in no rack and its location and
\* position stay as they were.
C4_OverCapacitySkip == []C4_Skipped /\ [][C4_SkipStep]_vars

\* A leaf was skipped and the call went on to place a later leaf and a
\* device of another role, and ended.
C4_Witness ==
  /\ pc = "done" /\ total_racks > 0
  /\ \E d, e, f \in Devs :
       /\ OverCapacity(d) /\ HasWarning("exceeds rack count", d)
       /\ d < e /\ IsLeaf(e) /\ position[e] # <<>>
       /\ ~IsLeaf(f) /\ position[f] # <<>>

\* C5: when no device has role leaf, the call logs a warning and returns
\* without raising: no rack occupancy, no location or position changed, no
\* batch created, nothing saved.
C5_NoLeafReturn ==
  (Leaves = {} /\ pc # "start")
    => /\ pc = "done"
       /\ error = NoError
       /\ HasWarning("No leaf devices found", 0)
       /\ rack_occupancy = <<>>
       /\ NothingUpdated

\* The call has returned on a list of devices of other roles only.
C5_Witness ==
  /\ pc = "done" /\ Leaves = {} /\ Len(devices) >= 2
  /\ \E d \in Devs : devices[d].role = "spine"
  /\ HasWarning("No leaf devices found", 0)

\* C7: when every leaf name ends in a number, the call never raises.
C7_NeverRaises ==
  (\A d \in Leaves : HasOrdinal(d)) => pc # "raised"

\* A leaf whose name does not end in a number.
Malformed(d) == IsLeaf(d) /\ devices[d].name \notin NumericLeafNames

C8_NeverPersists ==
  (\E d \in Devs : Malformed(d))
    => /\ pc \notin {"persist", "execute", "done"}
       /\ NothingUpdated
       /\ \A d \in Devs : Malformed(d) =>
            /\ ~HasWarning("exceeds rack count", d)
            /\ (Planned => EntryCount(d) = 0)

C8_ParseStep ==
  (CurrentLeaf # 0 /\ Malformed(CurrentLeaf))
    => /\ pc' = "raised"
       /\ error' = [kind |-> "ValueError", device |-> CurrentLeaf]
       /\ warnings' = warnings

\* C8: the step that handles a leaf whose name does not end in a number
\* raises ValueError (it does not skip it with a warning); a call on a list
\* holding such a leaf never reaches the update of the devices, so no
\* location or position is changed and nothing is queued or saved.
C8_MalformedNameRaises == []C8_NeverPersists /\ [][C8_ParseStep]_vars

\* The call has raised on a malformed leaf after it had placed another one.
C8_Witness ==
  /\ pc = "raised" /\ error.kind = "ValueError" /\ Malformed(error.device)
  /\ \E r \in DOMAIN rack_occupancy : rack_occupancy[r] # <<>>
  /\ NothingUpdated

\* Number of devices d of the list with P[d].
CountDevs(P) == Cardinality({d \in Devs : P[d]})

SpineCount == CountDevs([d \in Devs |-> devices[d].role = "spine"])

BorderLeafCount == CountDevs([d \in Devs |-> devices[d].role = "border_leaf"])

ConsoleCount == CountDevs([d \in Devs |-> devices[d].role \in {"console", "OOB-Console"}])

OobCount == CountDevs([d \in Devs |-> devices[d].role \in {"oob", "OOB-Console"}])

MiddleCount ==
  IF SpineCount >= BorderLeafCount + ConsoleCount + OobCount
  THEN SpineCount ELSE BorderLeafCount + ConsoleCount + OobCount

\* C9: with at least one leaf, middle_racks is the ascending list
\* middle_start+1 .. middle_start+middle_device_count, of exactly
\* middle_device_count indices, where middle_device_count = max(spines,
\* border_leaf + console + oob) and middle_start = total_racks // 2 -
\* middle_device_count // 2.
C9_MiddleRacks ==
  Planned
    => /\ total_racks = Cardinality(Leaves)
       /\ Len(middle_racks) = MiddleCount
       /\ \A i \in 1..Len(middle_racks) :
            middle_racks[i] = ((total_racks \div 2) - (MiddleCount \div 2)) + i

\* Ten racks and two middle devices: the band is racks 5 and 6
\* (middle_start = 10 // 2 - 2 // 2 = 4).
C9_Witness ==
  Planned /\ total_racks = 10 /\ MiddleCount = 2 /\ middle_racks = <<5, 6>>

C10_Placed ==
  \A r \in DOMAIN rack_occupancy :
    (pc \in {"border_leaf", "spine", "console", "oob"}
       /\ rack_occupancy'[r] # rack_occupancy[r])
      => LET old == rack_occupancy[r]
             new == rack_occupancy'[r][Len(rack_occupancy'[r])]
         IN  /\ rack_occupancy'[r] = Append(old, new)
             /\ new.height = HeightOf(new.device)
             /\ (old = <<>> => new.position = 42 - new.height + 1)
             /\ (old # <<>> =>
                   /\ \E i \in 1..Len(old) : old[i].position = new.position + new.height
                   /\ \A i \in 1..Len(old) : old[i].position >= new.position + new.height)

\* C10: a device of a middle-rack group put in a rack that has occupants gets
\* position = (lowest position of the occupants) - its height, so its top
\* unit is the unit right below the lowest occupied one; put in an empty
\* rack it gets 42 - height + 1.
C10_StackBelowLowest == [][C10_Placed]_vars

\* A rack holds three entries, the last two stacked below the first, and
\* another rack got a middle device as its first entry.
C10_Witness ==
  /\ pc = "done" /\ total_racks > 0
  /\ \E r \in DOMAIN rack_occupancy :
       /\ Len(rack_occupancy[r]) >= 3
       /\ ~IsLeaf(rack_occupancy[r][2].device)
       /\ rack_occupancy[r][2].height # rack_occupancy[r][3].height

---------------------------------------------------------------------------
\* The order of the placement loops.
PhaseRank(p) ==
  CASE p = "leaf" -> 1 [] p = "border_leaf" -> 2 [] p = "spine" -> 3
    [] p = "console" -> 4 [] p = "oob" -> 5 [] OTHER -> 6

\* The groups a device belongs to, as ranks: a role holding both "console"
\* and "oob" is in two groups.
GroupRanks(d) ==
  CASE devices[d].role = "leaf"        -> {1}
    [] devices[d].role = "border_leaf" -> {2}
    [] devices[d].role = "spine"       -> {3}
    [] devices[d].role = "console"     -> {4}
    [] devices[d].role = "oob"         -> {5}
    [] devices[d].role = "OOB-Console" -> {4, 5}
    [] OTHER                           -> {}

\* In every rack the entries are in group order, and an entry of a
\* middle-rack group is below every entry made before it.
C11_RackOrder ==
  \A r \in DOMAIN rack_occupancy :
    \A i, j \in 1..Len(rack_occupancy[r]) :
      i < j =>
        LET a == rack_occupancy[r][i]
            b == rack_occupancy[r][j]
        IN  /\ \E ga \in GroupRanks(a.device), gb \in GroupRanks(b.device) : ga <= gb
            /\ (~IsLeaf(b.device) => b.position < a.position)

\* A step never goes back to an earlier loop, and an entry made in a loop
\* is an entry of a device of that loop's group.
C11_PhaseStep ==
  /\ (pc' \notin {"start", "raised"} /\ pc # "start") => PhaseRank(pc') >= PhaseRank(pc)
  /\ \A r \in DOMAIN rack_occupancy :
       (pc \in {"leaf", "border_leaf", "spine", "console", "oob"}
          /\ rack_occupancy'[r] # rack_occupancy[r])
         => PhaseRank(pc) \in GroupRanks(rack_occupancy'[r][Len(rack_occupancy'[r])].device)

\* C11: the groups are placed in the order leaf, border_leaf, spine, console,
\* OOB: the loops run in that order and each places devices of its own group
\* only, so in every rack the entries are in group order and each entry of a
\* later group is strictly below the entries of the earlier groups.
C11_GroupOrder == []C11_RackOrder /\ [][C11_PhaseStep]_vars

\* A rack holds a leaf, a border leaf and a spine, top to bottom.
C11_Witness ==
  /\ pc = "done" /\ total_racks > 0
  /\ \E r \in DOMAIN rack_occupancy :
       /\ Len(rack_occupancy[r]) >= 3
       /\ devices[rack_occupancy[r][1].device].role = "leaf"
       /\ devices[rack_occupancy[r][2].device].role = "border_leaf"
       /\ devices[rack_occupancy[r][3].device].role = "spine"
       /\ rack_occupancy[r][1].position > rack_occupancy[r][2].position
       /\ rack_occupancy[r][2].position > rack_occupancy[r][3].position

\* C12: every position given to a device is in 1..42.
C12_PositionsInRack ==
  /\ \A r \in DOMAIN rack_occupancy :
       \A i \in 1..Len(rack_occupancy[r]) : rack_occupancy[r][i].position \in 1..42
  /\ \A d \in Devs : position[d] # <<>> => position[d][1] \in 1..42

\* Number of save tasks queued for device d.
SaveCount(d) == Cardinality({i \in 1..Len(batch.tasks) : batch.tasks[i] = d})

\* C13: in one call a device gets at most one occupancy entry over all racks
\* and at most one queued save.
C13_MutatedOnce ==
  \A d \in Devs :
    /\ Planned => EntryCount(d) <= 1
    /\ SaveCount(d) <= 1

---------------------------------------------------------------------------
(* The naming loop of create_devices (lines 688-707).                      *)

\* self.data["name"]
topology_name == <<"D", "C">>

\* Roles of design elements; one holds a hyphen and digits.
role_leaf == <<"l", "e", "a", "f">>
role_leaf_01 == <<"l", "e", "a", "f", "-", "0", "1">>
role_spine == <<"s", "p", "i", "n", "e">>

Element(r, q, t) == [role |-> r, quantity |-> q, template |-> t]

\* The design elements lists are built from: a role repeated with two
\* templates, a quantity that takes a counter past 99, an empty quantity.
ElementChoices ==
  { Element(role_leaf, 2, "leaf-a"),
    Element(role_leaf, LargeQuantity, "leaf-b"),
    Element(role_leaf_01, 1, "leaf-b"),
    Element(role_spine, 9, "spine-a"),
    Element(role_spine, 0, "spine-b") }

\* The design lists of n elements at most.
ElementLists(n) == UNION {[1..k -> ElementChoices] : k \in 0..n}

\* The counter of a role when an element starts, were it reset each time.
CounterStart_reset(counters, role) == 0

\* role_counters.setdefault(role, 0) (line 696): the counter of a role when
\* an element starts.
CounterStart(counters, role) ==
  IF role \in DOMAIN counters THEN counters[role] ELSE 0

\* create_devices is about to run on some design.
InitNaming ==
  /\ devices = <<>>
  /\ BeforeCall
  /\ ExpandIdle
  /\ LoadIdle
  /\ BuildIdle
  /\ WorkflowIdle
  /\ BootstrapIdle
  /\ elements \in ElementLists(MaxElements)
  /\ cd_pc = "loop"
  /\ el_idx = 1
  /\ role_counters = <<>>
  /\ created = <<>>
  /\ device_to_template = <<>>

\* Lines 692-707: one design element, its whole inner loop.
CreateElement ==
  /\ cd_pc = "loop"
  /\ el_idx <= Len(elements)
  /\ LET device == elements[el_idx]
         role == device.role
         start == CounterStart(role_counters, role)
         names == [i \in 1..device.quantity |->
                     DeviceName(topology_name, role, start + i)]
     IN /\ role_counters' =
             [r \in DOMAIN role_counters \cup {role} |->
                IF r = role THEN start + device.quantity ELSE role_counters[r]]
        /\ created' = created \o
             [i \in 1..device.quantity |->
                [name |-> names[i], role |-> role, element |-> el_idx]]
        /\ device_to_template' =
             [n \in DOMAIN device_to_template \cup {names[i] : i \in 1..device.quantity} |->
                IF \E i \in 1..device.quantity : names[i] = n
                THEN device.template
                ELSE device_to_template[n]]
  /\ el_idx' = el_idx + 1
  /\ UNCHANGED <<elements, cd_pc>>
  /\ UNCHANGED <<alloc_vars, expand_vars, load_vars, build_vars, workflow_vars, bootstrap_vars>>

\* Line 692: the elements are exhausted.
CreateDone ==
  /\ cd_pc = "loop"
  /\ el_idx > Len(elements)
  /\ cd_pc' = "done"
  /\ UNCHANGED <<elements, el_idx, role_counters, created, device_to_template>>
  /\ UNCHANGED <<alloc_vars, expand_vars, load_vars, build_vars, workflow_vars, bootstrap_vars>>

NextNaming ==
  \/ CreateElement
  \/ CreateDone

SpecNaming == InitNaming /\ [][NextNaming]_vars

---------------------------------------------------------------------------
(* load_data, the expansion of the templates (lines 211-234).              *)

\* The loop of expand_interface_range (lines 40-55) from part i on.
RECURSIVE ExpandFrom(_, _, _, _, _, _)
ExpandFrom(name, pre, suf, ps, i, exp) ==
  IF i > Len(ps) THEN [raises |-> FALSE, value |-> ReturnValue(exp, name)]
  ELSE LET part == ps[i]
           pair == Split(part, "-")
       IN IF Contains(<<"-">>, part)
          THEN IF Len(pair) # 2
               THEN [raises |-> TRUE, value |-> <<>>]
               ELSE IF isdigit(pair[1]) /\ isdigit(pair[2])
                    THEN ExpandFrom(name, pre, suf, ps, i + 1,
                                    exp \o RangeNames(pre, IntOf(pair[1]), IntOf(pair[2]), suf))
                    ELSE [raises |-> FALSE, value |-> <<name>>]
          ELSE IF isdigit(part)
               THEN ExpandFrom(name, pre, suf, ps, i + 1,
                               Append(exp, BareName(pre, part, suf)))
               ELSE [raises |-> FALSE, value |-> <<name>>]

\* expand_interface_range as a function of its argument (lines 16-55).
expand_interface_range(name) ==
  LET match == RangeSearch(name)
  IN IF ~match.found THEN [raises |-> FALSE, value |-> <<name>>]
     ELSE ExpandFrom(name,
                     SubSeq(name, 1, match.open - 1),
                     SubSeq(name, match.close + 1, Len(name)),
                     Split(SubSeq(name, match.open + 1, match.close - 1), ","),
                     1, <<>>)

\* An interface spec of a template: a name (empty when it has none) and
\* another field.
Iface(n, r) == [name |-> n, role |-> r]

if_range == <<"E", "[", "0", "-", "1", "]">>
if_plain == <<"M", "0">>
if_descending == <<"E", "[", "1", "-", "0", "]">>
if_letters == <<"E", "[", "a", "-", "1", "]">>
if_list == <<"E", "[", "0", ",", "1", "]", "x">>
if_single == <<"E", "[", "1", "]">>
if_two_hyphens == <<"E", "[", "1", "-", "0", "-", "1", "]">>

LoadElement(t, ifs) == [template_name |-> t, interfaces |-> ifs]

\* The design elements load_data is run on: their templates hold ranges,
\* plain names, ranges that fall back, an interface without name, no
\* interface at all, and a part with two hyphens.
LoadElementChoices ==
  { LoadElement("leaf-a", <<Iface(if_range, "uplink"), Iface(if_plain, "management")>>),
    LoadElement("leaf-b", <<Iface(if_descending, "uplink"), Iface(if_letters, "leaf")>>),
    LoadElement("spine-a", <<Iface(if_list, "leaf"), Iface(<<>>, "console")>>),
    LoadElement("spine-b", <<>>),
    LoadElement("oob-a", <<Iface(if_single, "management"), Iface(if_range, "leaf")>>),
    LoadElement("oob-b", <<Iface(if_plain, "management"), Iface(if_two_hyphens, "uplink")>>) }

LoadLists(n) == UNION {[1..k -> LoadElementChoices] : k \in 0..n}

\* The entries an interface spec is replaced by, one per name.
Copies(iface, names) == [k \in 1..Len(names) |-> [iface EXCEPT !.name = names[k]]]

\* load_data is about to run on some design.
InitLoad ==
  /\ devices = <<>>
  /\ BeforeCall
  /\ ExpandIdle
  /\ NamingIdle
  /\ BuildIdle
  /\ WorkflowIdle
  /\ BootstrapIdle
  /\ ld_elements \in LoadLists(MaxLoadElements)
  /\ ld_pc = "loop"
  /\ ld_el = 1
  /\ ld_if = 1
  /\ expanded_interfaces = <<>>
  /\ expanded_templates = <<>>
  /\ ld_error = "none"

\* Lines 221-230: one interface of the template of the current element.
LoadInterface ==
  /\ ld_pc = "loop"
  /\ ld_el <= Len(ld_elements)
  /\ ld_if <= Len(ld_elements[ld_el].interfaces)
  /\ LET iface == ld_elements[ld_el].interfaces[ld_if]
         result == expand_interface_range(iface.name)
     IN IF iface.name # <<>> /\ RangeSearch(iface.name).found
        THEN IF result.raises
             THEN /\ ld_pc' = "raised"
                  /\ ld_error' = "ValueError"
                  /\ UNCHANGED <<ld_if, expanded_interfaces>>
             ELSE /\ expanded_interfaces' =
                       expanded_interfaces \o Copies(iface, result.value)
                  /\ ld_if' = ld_if + 1
                  /\ UNCHANGED <<ld_pc, ld_error>>
        ELSE /\ expanded_interfaces' = Append(expanded_interfaces, iface)
             /\ ld_if' = ld_if + 1
             /\ UNCHANGED <<ld_pc, ld_error>>
  /\ UNCHANGED <<ld_elements, ld_el, expanded_templates>>
  /\ UNCHANGED <<alloc_vars, expand_vars, naming_vars, build_vars, workflow_vars, bootstrap_vars>>

\* Lines 215-220 and 232: the template of the current element is stored
\* and the next element starts with an empty list.
LoadTemplate ==
  /\ ld_pc = "loop"
  /\ ld_el <= Len(ld_elements)
  /\ ld_if > Len(ld_elements[ld_el].interfaces)
  /\ LET t == ld_elements[ld_el].template_name
     IN expanded_templates' =
          [n \in DOMAIN expanded_templates \cup {t} |->
             IF n = t THEN expanded_interfaces ELSE expanded_templates[n]]
  /\ expanded_interfaces' = <<>>
  /\ ld_el' = ld_el + 1
  /\ ld_if' = 1
  /\ UNCHANGED <<ld_elements, ld_pc, ld_error>>
  /\ UNCHANGED <<alloc_vars, expand_vars, naming_vars, build_vars, workflow_vars, bootstrap_vars>>

\* Line 234: self.data gets the expanded templates.
LoadDone ==
  /\ ld_pc = "loop"
  /\ ld_el > Len(ld_elements)
  /\ ld_pc' = "done"
  /\ UNCHANGED <<ld_elements, ld_el, ld_if, expanded_interfaces,
                 expanded_templates, ld_error>>
  /\ UNCHANGED <<alloc_vars, expand_vars, naming_vars, build_vars, workflow_vars, bootstrap_vars>>

NextLoad ==
  \/ LoadInterface
  \/ LoadTemplate
  \/ LoadDone

SpecLoad == InitLoad /\ [][NextLoad]_vars

---------------------------------------------------------------------------
(* A build: create_racks (lines 342-378), then the allocator on the        *)
(* devices create_devices makes for the same design (lines 692-752).       *)

\* f"Rack-{i}" (lines 365 and 531)
RackName(i) == <<"R", "a", "c", "k", "-">> \o Str(i)

BuildElement(r, q, p) == [role |-> r, quantity |-> q, peers |-> p]

\* The elements designs are built from; the leaves come in several
\* elements and get past ordinal 9.
BuildElementChoices ==
  { BuildElement("leaf", 1, NoPeers),
    BuildElement("leaf", 2, TallPeers),
    BuildElement("leaf", 9, NoPeers),
    BuildElement("spine", 1, NoPeers),
    BuildElement("border_leaf", 1, TallPeers),
    BuildElement("console", 1, NoPeers),
    BuildElement("oob", 1, NoPeers),
    BuildElement("dc_firewall", 1, NoPeers) }

BuildDesigns(n) == UNION {[1..k -> BuildElementChoices] : k \in 0..n}

\* Variant: one rack per leaf element, whatever its quantity.
RECURSIVE num_leafs_elements(_, _)
num_leafs_elements(els, n) ==
  IF n = 0 THEN 0
  ELSE num_leafs_elements(els, n - 1) + (IF els[n].role = "leaf" THEN 1 ELSE 0)

\* num_leafs (lines 347-351), over the first n elements.
RECURSIVE num_leafs(_, _)
num_leafs(els, n) ==
  IF n = 0 THEN 0
  ELSE num_leafs(els, n - 1) + (IF els[n].role = "leaf" THEN els[n].quantity ELSE 0)

\* role_counters[role] when element k starts (lines 696-700).
RECURSIVE CounterBefore(_, _, _)
CounterBefore(els, r, k) ==
  IF k <= 1 THEN 0
  ELSE CounterBefore(els, r, k - 1)
         + (IF els[k - 1].role = r THEN els[k - 1].quantity ELSE 0)

\* The devices of the first n elements, in the order the loop makes them.
RECURSIVE DevicesOfElements(_, _)
DevicesOfElements(els, n) ==
  IF n = 0 THEN <<>>
  ELSE DevicesOfElements(els, n - 1) \o
       [i \in 1..els[n].quantity |->
          Device(DeviceName(topology_name, Chars(els[n].role),
                            CounterBefore(els, els[n].role, n) + i),
                 els[n].role, els[n].peers)]

IsFirewall(d) == d.role \in {"dc_firewall", "edge_firewall"}

\* self.devices after create_devices: the physical devices are created
\* before the firewalls (lines 754-773).
GeneratedDevices(els) ==
  LET all == DevicesOfElements(els, Len(els))
  IN SelectSeq(all, LAMBDA d : ~IsFirewall(d)) \o SelectSeq(all, IsFirewall)

\* A build is about to create its racks; the devices are those of its
\* design.
InitBuild ==
  /\ design \in BuildDesigns(MaxBuildElements)
  /\ devices = GeneratedDevices(design)
  /\ BeforeCall
  /\ racks = {}
  /\ cr_pc = "call"
  /\ ExpandIdle
  /\ NamingIdle
  /\ LoadIdle
  /\ WorkflowIdle
  /\ BootstrapIdle

\* create_racks (lines 342-378)
CreateRacks ==
  /\ cr_pc = "call"
  /\ racks' = {RackName(i) : i \in 1..num_leafs(design, Len(design))}
  /\ cr_pc' = "done"
  /\ UNCHANGED design
  /\ UNCHANGED <<alloc_vars, expand_vars, naming_vars, load_vars, workflow_vars, bootstrap_vars>>

\* The allocator starts once the racks exist.
PlanBuild == cr_pc = "done" /\ Plan

NextBuild ==
  \/ CreateRacks
  \/ PlanBuild
  \/ AssignLeaf
  \/ AssignBorderLeaf
  \/ AssignSpine
  \/ AssignConsole
  \/ AssignOob
  \/ UpdateDevices
  \/ ExecuteBatch
  \/ CallAgain

SpecBuild == InitBuild /\ [][NextBuild]_vars

---------------------------------------------------------------------------
(* The Create-DC workflow (src/service_catalog/pages/1_Create_DC.py):      *)
(* every run of main executes at most one step of the workflow.            *)

\* str.replace(' ', '-')
ReplaceSpaces(cs) == [i \in 1..Len(cs) |-> IF cs[i] = " " THEN "-" ELSE cs[i]]

\* branch_name (line 165)
BranchName(dc_name) == <<"a", "d", "d", "-">> \o ReplaceSpaces(Lower(dc_name))

\* The names typed into the form; two of them give the same branch name.
NameChoices ==
  { <<"D", "C", "1">>,
    <<"D", "C", " ", "1">>,
    <<"d", "c", "-", "1">> }

\* The dictionary of lines 167-178.
InitialState(dc_name) ==
  [active |-> TRUE,
   step |-> 1,
   dc_name |-> dc_name,
   branch_name |-> BranchName(dc_name),
   branch_created |-> FALSE,
   dc_created |-> FALSE,
   pc_created |-> FALSE,
   error |-> <<>>,
   pc_url |-> <<>>]

\* dc_creation_active (line 342)
dc_creation_active == dc_creation # <<>> /\ dc_creation[1].active

\* Variant: the step number is left as it was.
BranchCreated_same_step(state) == [state EXCEPT !.branch_created = TRUE]

\* Lines 226-227
BranchCreated(state) == [state EXCEPT !.branch_created = TRUE, !.step = 2]

\* Lines 250-251
DatacenterCreated(state) == [state EXCEPT !.dc_created = TRUE, !.step = 3]

\* Line 261
GeneratorWaited(state) == [state EXCEPT !.step = 4]

\* Lines 275-277
ProposedChangeCreated(state, url) ==
  [state EXCEPT !.pc_created = TRUE, !.pc_url = <<url>>, !.step = 5]

\* Line 282
Completed(state) == [state EXCEPT !.active = FALSE]

\* Variant: the error is recorded and the workflow stays active.
Failed_still_active(state, msg) == [state EXCEPT !.error = <<msg>>]

\* Lines 297-298
Failed(state, msg) == [state EXCEPT !.error = <<msg>>, !.active = FALSE]

\* The message of the API error each call raises (utils/api.py).
ErrorOfStep(step) ==
  CASE step = 1 -> "Failed to create branch"
    [] step = 2 -> "Failed to create datacenter"
    [] step = 4 -> "Failed to create proposed change"

\* A browser session opens the page.
InitWorkflow ==
  /\ devices = <<>>
  /\ BeforeCall
  /\ ExpandIdle
  /\ NamingIdle
  /\ LoadIdle
  /\ BuildIdle
  /\ WorkflowIdle
  /\ BootstrapIdle

\* The form is submitted with valid fields (lines 566-608):
\* handle_dc_creation initialises the state and reruns the script.  The
\* button is disabled while a workflow is active.
Submit ==
  /\ ~dc_creation_active
  /\ wf_count < MaxWorkflows
  /\ \E dc_name \in NameChoices : dc_creation' = <<InitialState(dc_name)>>
  /\ wf_count' = wf_count + 1
  /\ UNCHANGED infrahub
  /\ UNCHANGED <<alloc_vars, expand_vars, naming_vars, load_vars, build_vars, bootstrap_vars>>

\* Step 1 (lines 218-228): create_branch returns.
CreateBranch ==
  /\ dc_creation_active
  /\ dc_creation[1].step = 1
  /\ infrahub' = [infrahub EXCEPT !.branches = @ \cup {dc_creation[1].branch_name}]
  /\ dc_creation' = <<BranchCreated(dc_creation[1])>>
  /\ UNCHANGED wf_count
  /\ UNCHANGED <<alloc_vars, expand_vars, naming_vars, load_vars, build_vars, bootstrap_vars>>

\* Step 2 (lines 230-252): create_datacenter returns.
CreateDatacenter ==
  /\ dc_creation_active
  /\ dc_creation[1].step = 2
  /\ infrahub' = [infrahub EXCEPT !.datacenters =
                    @ \cup {<<dc_creation[1].branch_name, dc_creation[1].dc_name>>}]
  /\ dc_creation' = <<DatacenterCreated(dc_creation[1])>>
  /\ UNCHANGED wf_count
  /\ UNCHANGED <<alloc_vars, expand_vars, naming_vars, load_vars, build_vars, bootstrap_vars>>

\* Step 3 (lines 254-262): the wait for the generator.
WaitForGenerator ==
  /\ dc_creation_active
  /\ dc_creation[1].step = 3
  /\ dc_creation' = <<GeneratorWaited(dc_creation[1])>>
  /\ UNCHANGED <<wf_count, infrahub>>
  /\ UNCHANGED <<alloc_vars, expand_vars, naming_vars, load_vars, build_vars, bootstrap_vars>>

\* Step 4 (lines 264-278): create_proposed_change returns; the URL ends in
\* the id of the proposed change, here the number of the workflow.
CreateProposedChange ==
  /\ dc_creation_active
  /\ dc_creation[1].step = 4
  /\ infrahub' = [infrahub EXCEPT !.proposed_changes =
                    @ \cup {<<dc_creation[1].branch_name, wf_count>>}]
  /\ dc_creation' = <<ProposedChangeCreated(dc_creation[1], wf_count)>>
  /\ UNCHANGED wf_count
  /\ UNCHANGED <<alloc_vars, expand_vars, naming_vars, load_vars, build_vars, bootstrap_vars>>

\* Step 5 (lines 280-294): the success message.
Complete ==
  /\ dc_creation_active
  /\ dc_creation[1].step = 5
  /\ dc_creation' = <<Completed(dc_creation[1])>>
  /\ UNCHANGED <<wf_count, infrahub>>
  /\ UNCHANGED <<alloc_vars, expand_vars, naming_vars, load_vars, build_vars, bootstrap_vars>>

\* The API call of step 1, 2 or 4 raises an Infrahub API error
\* (lines 296-318); the server has created nothing.
StepFails ==
  /\ dc_creation_active
  /\ dc_creation[1].step \in {1, 2, 4}
  /\ dc_creation' = <<Failed(dc_creation[1], ErrorOfStep(dc_creation[1].step))>>
  /\ UNCHANGED <<wf_count, infrahub>>
  /\ UNCHANGED <<alloc_vars, expand_vars, naming_vars, load_vars, build_vars, bootstrap_vars>>

\* execute_dc_creation_step (lines 209-318)
execute_dc_creation_step ==
  \/ CreateBranch
  \/ CreateDatacenter
  \/ WaitForGenerator
  \/ CreateProposedChange
  \/ Complete
  \/ StepFails

NextWorkflow ==
  \/ Submit
  \/ CreateBranch
  \/ CreateDatacenter
  \/ WaitForGenerator
  \/ CreateProposedChange
  \/ Complete
  \/ StepFails

SpecWorkflow == InitWorkflow /\ [][NextWorkflow]_vars

\* Every step but the last ends in st.rerun(), and main runs a step in
\* every run while the workflow is active (lines 612-617).
SpecWorkflowLive == SpecWorkflow /\ WF_vars(execute_dc_creation_step)

---------------------------------------------------------------------------
(* main of src/scripts/bootstrap.py.                                       *)

\* Variant: the menu is loaded before the schemas.
steps_menu_first ==
  << "menu load", "schema load", "object load bootstrap",
     "object load security", "populate_security_relationships" >>

\* The commands of the list steps (lines 172-208), in its order.
steps ==
  << "schema load", "menu load", "object load bootstrap",
     "object load security", "populate_security_relationships" >>

Ran(command, ok) == [command |-> command, ok |-> ok]

\* main is called.
InitBootstrap ==
  /\ devices = <<>>
  /\ BeforeCall
  /\ ExpandIdle
  /\ NamingIdle
  /\ LoadIdle
  /\ BuildIdle
  /\ WorkflowIdle
  /\ bs_pc = "ready_check"
  /\ attempt = 0
  /\ ready = <<>>
  /\ bs_step = 1
  /\ ran = <<>>
  /\ returned = <<>>

\* One attempt of check_infrahub_ready (lines 71-82): status 200 returns
\* True, another status or a RequestException goes to the next attempt.
CheckAttempt ==
  /\ bs_pc = "ready_check"
  /\ attempt < max_retries
  /\ \E response \in {"200", "503", "RequestException"} :
       IF response = "200"
       THEN /\ ready' = <<TRUE>>
            /\ bs_pc' = "steps"
            /\ UNCHANGED attempt
       ELSE /\ attempt' = attempt + 1
            /\ UNCHANGED <<ready, bs_pc>>
  /\ UNCHANGED <<bs_step, ran, returned>>
  /\ UNCHANGED <<alloc_vars, expand_vars, naming_vars, load_vars, build_vars, workflow_vars>>

\* The attempts are used up (lines 84-96): check_infrahub_ready returns
\* False and main returns 1 (lines 168-169).
CheckGivesUp ==
  /\ bs_pc = "ready_check"
  /\ attempt = max_retries
  /\ ready' = <<FALSE>>
  /\ returned' = <<1>>
  /\ bs_pc' = "returned"
  /\ UNCHANGED <<attempt, bs_step, ran>>
  /\ UNCHANGED <<alloc_vars, expand_vars, naming_vars, load_vars, build_vars, workflow_vars>>

\* One round of the for loop (lines 211-224): run_command is True when
\* the command exits with 0, and main returns 1 when it is False.
RunStep ==
  /\ bs_pc = "steps"
  /\ bs_step <= Len(steps)
  /\ \E ok \in BOOLEAN :
       /\ ran' = Append(ran, Ran(steps[bs_step], ok))
       /\ IF ok
          THEN /\ bs_step' = bs_step + 1
               /\ bs_pc' = IF bs_step = Len(steps) THEN "repository" ELSE "steps"
               /\ UNCHANGED returned
          ELSE /\ returned' = <<1>>
               /\ bs_pc' = "returned"
               /\ UNCHANGED bs_step
  /\ UNCHANGED <<attempt, ready>>
  /\ UNCHANGED <<alloc_vars, expand_vars, naming_vars, load_vars, build_vars, workflow_vars>>

\* Lines 226-243: the repository is added, exists already or cannot be
\* added; main goes on in every case.
AddRepository ==
  /\ bs_pc = "repository"
  /\ \E result \in {"added", "already exists", "failed"} :
       ran' = Append(ran, Ran("repository add", result = "added"))
  /\ bs_pc' = "sync"
  /\ UNCHANGED <<attempt, ready, bs_step, returned>>
  /\ UNCHANGED <<alloc_vars, expand_vars, naming_vars, load_vars, build_vars, workflow_vars>>

\* Lines 247-249: wait_for_repository_sync.
WaitForSync ==
  /\ bs_pc = "sync"
  /\ ran' = Append(ran, Ran("sync wait", TRUE))
  /\ bs_pc' = "events"
  /\ UNCHANGED <<attempt, ready, bs_step, returned>>
  /\ UNCHANGED <<alloc_vars, expand_vars, naming_vars, load_vars, build_vars, workflow_vars>>

\* Lines 253-278: the event actions are loaded, the result of run_command
\* is dropped, and main returns 0.
LoadEvents ==
  /\ bs_pc = "events"
  /\ \E ok \in BOOLEAN : ran' = Append(ran, Ran("object load events", ok))
  /\ returned' = <<0>>
  /\ bs_pc' = "returned"
  /\ UNCHANGED <<attempt, ready, bs_step>>
  /\ UNCHANGED <<alloc_vars, expand_vars, naming_vars, load_vars, build_vars, workflow_vars>>

NextBootstrap ==
  \/ CheckAttempt
  \/ CheckGivesUp
  \/ RunStep
  \/ AddRepository
  \/ WaitForSync
  \/ LoadEvents

SpecBootstrap == InitBootstrap /\ [][NextBootstrap]_vars

---------------------------------------------------------------------------
(* Vocabulary of the properties of expand_interface_range.                 *)

\* expand_interface_range has ended, by a return or by an exception.
ExpandEnded == ex_pc \in {"returned", "raised"}

\* The bracket pairs of a name that hold a range: only word characters,
\* commas and hyphens in between, and at least one comma or hyphen.
RangeBrackets(name) ==
  {oc \in {i \in 1..Len(name) : name[i] = "["} \X {i \in 1..Len(name) : name[i] = "]"} :
     /\ oc[1] < oc[2]
     /\ \A k \in (oc[1] + 1)..(oc[2] - 1) : IsClassChar(name[k])
     /\ \E k \in (oc[1] + 1)..(oc[2] - 1) : name[k] \in {",", "-"}}

HasRange(name) == RangeBrackets(name) # {}

\* The leftmost of them.
FirstRange(name) ==
  LET all == RangeBrackets(name)
  IN CHOOSE oc \in all : \A o \in all : oc[1] <= o[1]

\* What stands before, after and inside the bracket pair oc of a name.
Before(name, oc) == SubSeq(name, 1, oc[1] - 1)
After(name, oc) == SubSeq(name, oc[2] + 1, Len(name))
Inside(name, oc) == SubSeq(name, oc[1] + 1, oc[2] - 1)

RangePrefix(name) == Before(name, FirstRange(name))
RangeSuffix(name) == After(name, FirstRange(name))
RangeContent(name) == Inside(name, FirstRange(name))

\* The positions of the commas of cs, and the comma-separated parts.
CommaAt(cs) == {i \in 1..Len(cs) : cs[i] = ","}
PartCount(cs) == Cardinality(CommaAt(cs)) + 1
PartStart(cs, n) ==
  IF n = 1 THEN 1
  ELSE 1 + CHOOSE i \in CommaAt(cs) : Cardinality({j \in CommaAt(cs) : j <= i}) = n - 1
PartEnd(cs, n) ==
  IF n = PartCount(cs) THEN Len(cs)
  ELSE (CHOOSE i \in CommaAt(cs) : Cardinality({j \in CommaAt(cs) : j <= i}) = n) - 1
PartOf(cs, n) == SubSeq(cs, PartStart(cs, n), PartEnd(cs, n))

AllDigits(cs) == cs # <<>> /\ \A i \in 1..Len(cs) : IsDigit(cs[i])

\* A hyphenated pair of all-digit strings "a-b".
HyphenAt(cs) == {i \in 1..Len(cs) : cs[i] = "-"}
IsDigitPair(cs) ==
  /\ Cardinality(HyphenAt(cs)) = 1
  /\ \A h \in HyphenAt(cs) : /\ AllDigits(SubSeq(cs, 1, h - 1))
                             /\ AllDigits(SubSeq(cs, h + 1, Len(cs)))
PairLow(cs) == IntOf(SubSeq(cs, 1, (CHOOSE h \in HyphenAt(cs) : TRUE) - 1))
PairHigh(cs) == IntOf(SubSeq(cs, (CHOOSE h \in HyphenAt(cs) : TRUE) + 1, Len(cs)))

PartParses(cs) == AllDigits(cs) \/ IsDigitPair(cs)
ContentParses(cs) == \A n \in 1..PartCount(cs) : PartParses(PartOf(cs, n))

\* C14: expand_interface_range never raises: every call ends by returning a
\* non-empty list.
C14_NeverRaises ==
  /\ ex_pc # "raised"
  /\ ex_pc = "returned" => ex_result # <<>>

\* The names one parsing part stands for, in order.
PartNames(pre, part, suf) ==
  IF AllDigits(part) THEN <<pre \o part \o suf>>
  ELSE LET a == PairLow(part)
           b == PairHigh(part)
       IN [k \in 1..(IF b >= a THEN b - a + 1 ELSE 0) |-> pre \o Str(a + k - 1) \o suf]

\* The concatenation of the names of the first n parts of a content.
RECURSIVE NamesUpTo(_, _, _, _)
NamesUpTo(pre, content, suf, n) ==
  IF n = 0 THEN <<>>
  ELSE NamesUpTo(pre, content, suf, n - 1) \o PartNames(pre, PartOf(content, n), suf)

ExpectedNames(name) ==
  LET oc == FirstRange(name)
      content == Inside(name, oc)
  IN NamesUpTo(Before(name, oc), content, After(name, oc), PartCount(content))

\* The range of the argument holds a part that does not parse.
SomePartBad == HasRange(interface_name) /\ ~ContentParses(RangeContent(interface_name))

\* The range of the argument parses.
RangeParses == HasRange(interface_name) /\ ContentParses(RangeContent(interface_name))

\* C15: when some comma-separated part of the bracket content is neither an
\* all-digit string nor a hyphenated pair of all-digit strings, the call
\* returns exactly [interface_name].
C15_AllOrNothing ==
  (ExpandEnded /\ SomePartBad)
    => (ex_pc = "returned" /\ ex_result = <<interface_name>>)

\* C16 as stated: for every name whose bracket content parses, the result
\* is the concatenation of the expansions of the parts, an empty
\* concatenation included.
C16_ConcatenationAlways ==
  (ExpandEnded /\ RangeParses)
    => (ex_pc = "returned" /\ ex_result = ExpectedNames(interface_name))

\* C16: for a name whose bracket content parses and stands for one name at
\* least, the result is the concatenation, left to right, of the expansions
\* of the parts; "a-b" gives prefix+i+suffix for i = a..b ascending, and
\* nothing is deduplicated.
C16_Concatenation ==
  (ExpandEnded /\ RangeParses /\ ExpectedNames(interface_name) # <<>>)
    => (ex_pc = "returned" /\ ex_result = ExpectedNames(interface_name))

\* A two-part range with a hyphenated pair was expanded, and a name occurs
\* twice in the result.
C16_Witness ==
  /\ ex_pc = "returned"
  /\ RangeParses
  /\ PartCount(RangeContent(interface_name)) >= 2
  /\ \E n \in 1..PartCount(RangeContent(interface_name)) :
       IsDigitPair(PartOf(RangeContent(interface_name), n))
  /\ Len(ex_result) >= 3
  /\ \E i, j \in 1..Len(ex_result) : i < j /\ ex_result[i] = ex_result[j]

\* The bracket pairs that hold only digits, commas and hyphens, one
\* character at least.
DigitBrackets(name) ==
  {oc \in {i \in 1..Len(name) : name[i] = "["} \X {i \in 1..Len(name) : name[i] = "]"} :
     /\ oc[1] + 1 < oc[2]
     /\ \A k \in (oc[1] + 1)..(oc[2] - 1) : IsDigit(name[k]) \/ name[k] \in {",", "-"}}

FirstDigitBracket(name) ==
  LET all == DigitBrackets(name)
  IN CHOOSE oc \in all : \A o \in all : oc[1] <= o[1]

\* One name per bare digit part of the bracket oc of a name.
BareNames(name, oc) ==
  LET content == Inside(name, oc)
  IN [n \in 1..PartCount(content) |->
        Before(name, oc) \o PartOf(content, n) \o After(name, oc)]

AllBare(content) == \A n \in 1..PartCount(content) : AllDigits(PartOf(content, n))

\* C17 as stated: every bracketed segment of digits, commas and hyphens is
\* detected, a lone bare digit string included, and each bare digit part
\* gives one name.
C17_DigitsDetected ==
  LET name == interface_name
      oc == FirstDigitBracket(name)
  IN /\ (ex_pc # "call" /\ DigitBrackets(name) # {}) => parts # <<>>
     /\ (/\ ExpandEnded
         /\ DigitBrackets(name) # {}
         /\ AllBare(Inside(name, oc)))
          => (ex_pc = "returned" /\ ex_result = BareNames(name, oc))

\* C17: the segment detected is the leftmost bracketed segment of word
\* characters, commas and hyphens that holds a comma or a hyphen at least;
\* when its parts are all bare digit strings each gives exactly one name
\* prefix+digits+suffix, in order; a name whose only brackets hold digits
\* without any comma or hyphen is returned unchanged.
C17_RangeDetected ==
  LET name == interface_name
      oc == FirstRange(name)
      content == Inside(name, oc)
  IN /\ ex_pc # "call" =>
          IF HasRange(name)
          THEN /\ prefix = Before(name, oc)
               /\ suffix = After(name, oc)
               /\ Len(parts) = PartCount(content)
               /\ \A n \in 1..Len(parts) : parts[n] = PartOf(content, n)
          ELSE parts = <<>>
     /\ (ExpandEnded /\ HasRange(name) /\ AllBare(content))
          => (ex_pc = "returned" /\ ex_result = BareNames(name, oc))
     /\ (ExpandEnded /\ DigitBrackets(name) # {} /\ ~HasRange(name))
          => (ex_pc = "returned" /\ ex_result = <<name>>)

\* A list of two bare digit strings or more was expanded, one of them with
\* a leading zero.
C17_Witness ==
  /\ ex_pc = "returned"
  /\ HasRange(interface_name)
  /\ AllBare(RangeContent(interface_name))
  /\ PartCount(RangeContent(interface_name)) >= 2
  /\ \E n \in 1..PartCount(RangeContent(interface_name)) :
       PartOf(RangeContent(interface_name), n)[1] = "0"
         /\ Len(PartOf(RangeContent(interface_name), n)) >= 2
  /\ Len(ex_result) = PartCount(RangeContent(interface_name))

\* C18: a name without a bracket range, or whose bracket parses into zero
\* names, is returned as [interface_name]; the list returned is never empty.
C18_FallbackToName ==
  /\ (/\ ExpandEnded
      /\ \/ ~HasRange(interface_name)
         \/ (RangeParses /\ ExpectedNames(interface_name) = <<>>))
       => (ex_pc = "returned" /\ ex_result = <<interface_name>>)
  /\ ex_pc = "returned" => ex_result # <<>>

\* The loop ran over a range that parses and stands for no name, and the
\* call returned.
C18_Witness ==
  /\ ex_pc = "returned"
  /\ RangeParses
  /\ ExpectedNames(interface_name) = <<>>
  /\ part_idx > Len(parts)
  /\ expanded = <<>>

---------------------------------------------------------------------------
(* Vocabulary of the properties of create_devices.                         *)

CreatedNames == {created[i].name : i \in 1..Len(created)}

\* The elements handled so far.
HandledElements == 1..(el_idx - 1)

\* The quantities of the handled elements of a role, added up.
RECURSIVE QuantityUpTo(_, _)
QuantityUpTo(r, n) ==
  IF n = 0 THEN 0
  ELSE QuantityUpTo(r, n - 1) + (IF elements[n].role = r THEN elements[n].quantity ELSE 0)

\* The decimal digits of n >= 0, padded with zeros to two digits.
RECURSIVE Digits(_)
Digits(n) == IF n < 10 THEN <<n>> ELSE Append(Digits(n \div 10), n % 10)
Padded(n) == IF n < 10 THEN <<"0", DigitChar(n)>> ELSE [i \in 1..Len(Digits(n)) |-> DigitChar(Digits(n)[i])]

\* lowercase(topology)-role-NN
ExpectedName(r, n) == <<"d", "c", "-">> \o r \o <<"-">> \o Padded(n)

\* Every entry carries the name of the next counter of its role: the k-th
\* entry that of the number of entries of its role among the first k.
ConsecutiveCounters ==
  \A k \in 1..Len(created) :
    created[k].name =
      ExpectedName(created[k].role,
                   Cardinality({j \in 1..k : created[j].role = created[k].role}))

\* C19: the names generated in one build are pairwise distinct, and each is
\* mapped in device_to_template to the template name of its element.
C19_DistinctNames ==
  /\ Cardinality(CreatedNames) = Len(created)
  /\ DOMAIN device_to_template = CreatedNames
  /\ \A i \in 1..Len(created) :
       device_to_template[created[i].name] = elements[created[i].element].template

\* A build ended in which a role came in two elements with different
\* templates and another role holds a hyphen and digits.
C19_Witness ==
  /\ cd_pc = "done"
  /\ \E i, j \in 1..Len(elements) :
       /\ i < j
       /\ elements[i].role = elements[j].role
       /\ elements[i].template # elements[j].template
       /\ elements[i].quantity > 0
       /\ elements[j].quantity > 0
  /\ \E i \in 1..Len(created) : created[i].role = role_leaf_01

\* C20: each role has one counter, which starts at 1, grows by one per unit
\* of quantity, is independent of the other roles and goes on across the
\* elements of the role; the names are lowercase(topology)-role-NN for the
\* counters 1..n in order, padded to two digits and never truncated.
C20_RoleCounters ==
  /\ ConsecutiveCounters
  /\ \A r \in {elements[n].role : n \in HandledElements} :
       /\ r \in DOMAIN role_counters
       /\ role_counters[r] = QuantityUpTo(r, el_idx - 1)
       /\ Cardinality({i \in 1..Len(created) : created[i].role = r}) = role_counters[r]
  /\ \A i \in 1..Len(created) :
       /\ created[i].role = elements[created[i].element].role
       /\ IntOf(LastPart(created[i].name)) \in 1..role_counters[created[i].role]

\* A build ended in which a role of two elements got past counter 99 while
\* another role was counted from 1.
C20_Witness ==
  /\ cd_pc = "done"
  /\ \E r \in DOMAIN role_counters : role_counters[r] > LargeQuantity
  /\ \E r \in DOMAIN role_counters : role_counters[r] \in 1..9
  /\ \E i \in 1..Len(created) : Len(LastPart(created[i].name)) = 3

---------------------------------------------------------------------------
(* Vocabulary of the properties of load_data.                              *)

\* The entries that stand for one interface spec: its expansions when its
\* name holds a range that parses into one name at least, itself otherwise.
ExpectedEntries(iface) ==
  IF /\ HasRange(iface.name)
     /\ ContentParses(RangeContent(iface.name))
     /\ ExpectedNames(iface.name) # <<>>
  THEN LET names == ExpectedNames(iface.name)
       IN [k \in 1..Len(names) |-> [name |-> names[k], role |-> iface.role]]
  ELSE <<iface>>

RECURSIVE ExpectedInterfaces(_, _)
ExpectedInterfaces(ifs, n) ==
  IF n = 0 THEN <<>>
  ELSE ExpectedInterfaces(ifs, n - 1) \o ExpectedEntries(ifs[n])

\* C21: load_data never drops data: the expansion of every template ends,
\* and the list stored for a template holds, in the order of the template,
\* the expansions of each interface spec with the other fields copied, or
\* the spec itself when it has no range or its range cannot be parsed.
C21_NeverDropsData ==
  /\ ld_pc # "raised"
  /\ \A e \in 1..Len(ld_elements) :
       (e < ld_el) =>
         LET t == ld_elements[e]
         IN /\ t.template_name \in DOMAIN expanded_templates
            /\ expanded_templates[t.template_name] =
                 ExpectedInterfaces(t.interfaces, Len(t.interfaces))

---------------------------------------------------------------------------
(* The middle band in the row of racks.                                    *)

BandIndexes == {middle_racks[i] : i \in 1..Len(middle_racks)}

\* The racks whose index is below, and above, every index of the band.
RacksBelowBand == {r \in 1..total_racks : \A b \in BandIndexes : r < b}
RacksAboveBand == {r \in 1..total_racks : \A b \in BandIndexes : r > b}

\* C22: when middle_device_count <= total_racks, the numbers of racks below
\* and above the band differ by at most 1.
C22_BandCentred ==
  (Planned /\ MiddleCount <= total_racks)
    => LET below == Cardinality(RacksBelowBand)
           above == Cardinality(RacksAboveBand)
       IN below - above \in {-1, 0, 1}

\* Five racks and a band of two: one rack below, two above.
C22_Witness ==
  /\ Planned
  /\ total_racks = 5
  /\ Len(middle_racks) = 2
  /\ Cardinality(RacksBelowBand) = 1
  /\ Cardinality(RacksAboveBand) = 2

---------------------------------------------------------------------------
(* The non-leaf groups over the middle racks.                              *)

\* The four non-leaf groups, in the order of their loops.
NonLeafGroups ==
  <<border_leaf_devices, spine_devices, console_devices, oob_devices>>

\* The loop of the g-th non-leaf group is over and the call goes on.
GroupDone(g) == Planned /\ pc # "raised" /\ PhaseRank(pc) > g + 1

\* Device d has an entry in rack r.
InRack(d, r) == r \in DOMAIN rack_occupancy /\ EntriesOf(d, r) # {}

\* C23: the i-th device of a non-leaf group is placed in the i-th middle
\* rack, and no rack holds two devices of the same non-leaf group.
C23_OneRackPerGroupDevice ==
  \A g \in 1..4 :
    /\ GroupDone(g) =>
         \A i \in 1..Len(NonLeafGroups[g]) :
           i <= Len(middle_racks) /\ InRack(NonLeafGroups[g][i], middle_racks[i])
    /\ Planned =>
         \A r \in DOMAIN rack_occupancy :
           \A i, j \in 1..Len(NonLeafGroups[g]) :
             (InRack(NonLeafGroups[g][i], r) /\ InRack(NonLeafGroups[g][j], r)) => i = j

---------------------------------------------------------------------------
(* The middle band against the racks that exist.                           *)

\* The call has ended, by reaching the updates of the devices or by an
\* exception that no leaf caused.
PlacementEnded ==
  /\ Planned
  /\ pc \in {"persist", "execute", "done", "raised"}
  /\ pc = "raised" => (error.device \in Devs /\ ~IsLeaf(error.device))

\* A non-leaf device was directed to a rack index without occupancy entry.
MissingRackHit ==
  /\ pc = "raised"
  /\ error.kind = "KeyError"
  /\ error.device \in Devs
  /\ ~IsLeaf(error.device)

\* The band is as valid as it is short.
BandValidIffFits == MiddleRacksValid <=> (MiddleCount <= total_racks)

\* C24 as stated: the indices of middle_racks are rack numbers exactly when
\* middle_device_count <= total_racks, and whenever the spines, or the
\* border leaves, consoles and OOB devices together, outnumber the leaves a
\* non-leaf device is directed to a missing rack.
C24_BandFitsOrMisses ==
  /\ Planned => BandValidIffFits
  /\ (/\ PlacementEnded
      /\ \/ SpineCount > total_racks
         \/ BorderLeafCount + ConsoleCount + OobCount > total_racks)
       => MissingRackHit

\* C24: the indices of middle_racks are rack numbers exactly when
\* middle_device_count <= total_racks, and whenever one non-leaf group
\* alone outnumbers the leaves and the leaf loop ends without exception a
\* non-leaf device is directed to a missing rack.
C24_BandFitsOrGroupMisses ==
  /\ Planned => BandValidIffFits
  /\ (/\ PlacementEnded
      /\ \E g \in 1..4 : Len(NonLeafGroups[g]) > total_racks)
       => MissingRackHit

\* Two spines for one leaf: the band is <<0, 1>> and the first spine is
\* directed to rack 0.
C24_Witness ==
  /\ MissingRackHit
  /\ total_racks = 1
  /\ SpineCount = 2
  /\ middle_racks = <<0, 1>>
  /\ ~MiddleRacksValid

---------------------------------------------------------------------------
(* The non-leaf groups against the size of the band.                       *)

NotEnoughMessages ==
  {"Not enough middle racks for border leaf", "Not enough middle racks for spine",
   "Not enough middle racks for console device", "Not enough middle racks for OOB device"}

\* The "not enough middle racks" branch was taken.
NotEnoughWarned == \E i \in 1..Len(warnings) : warnings[i].msg \in NotEnoughMessages

\* No group is longer than the band.
GroupsFitBand ==
  /\ Len(middle_racks) = MiddleCount
  /\ \A g \in 1..4 : Len(NonLeafGroups[g]) <= Len(middle_racks)

\* Every device of a non-leaf group has an occupancy entry.
AllMiddlePlaced ==
  \A g \in 1..4 : \A i \in 1..Len(NonLeafGroups[g]) : EntryCount(NonLeafGroups[g][i]) >= 1

---------------------------------------------------------------------------
(* Racks and leaves of a build.                                            *)

LeafCount == Cardinality({d \in Devs : IsLeaf(d)})

\* The leaf loop is over.
LeafLoopOver ==
  Planned /\ pc \in {"border_leaf", "spine", "console", "oob", "persist",
                     "execute", "done", "raised"}

\* "Rack-k"
ExpectedRack(k) ==
  <<"R", "a", "c", "k", "-">> \o [i \in 1..Len(Digits(k)) |-> DigitChar(Digits(k)[i])]

LeafEntries(r) == {i \in 1..Len(rack_occupancy[r]) : IsLeaf(rack_occupancy[r][i].device)}

\* C26: in a build, create_racks creates exactly Rack-1..Rack-n for the n
\* leaves of the design, and the leaf loop skips no leaf: rack k holds one
\* leaf, leaf k, as its first and topmost occupant, and it is a rack that
\* create_racks created.
C26_LeafPerCreatedRack ==
  /\ cr_pc = "done" => racks = {ExpectedRack(k) : k \in 1..LeafCount}
  /\ LeafLoopOver =>
       /\ total_racks = LeafCount
       /\ ~(pc = "raised" /\ error.device \in Devs /\ IsLeaf(error.device))
       /\ \A i \in 1..Len(warnings) : warnings[i].msg # "exceeds rack count"
       /\ \A k \in 1..LeafCount :
            /\ ExpectedRack(k) \in racks
            /\ rack_occupancy[k] # <<>>
            /\ LeafEntries(k) = {1}
            /\ devices[rack_occupancy[k][1].device].name = ExpectedName(role_leaf, k)
            /\ rack_occupancy[k][1].position
                 = RackUnits - (HeightOf(rack_occupancy[k][1].device) - 1)
            /\ \A i \in 1..Len(rack_occupancy[k]) :
                 rack_occupancy[k][i].position <= rack_occupancy[k][1].position

\* A build of eleven leaves from two elements ended with a device
\* stacked below the leaf of some rack.
C26_Witness ==
  /\ pc = "done"
  /\ cr_pc = "done"
  /\ LeafCount = 11
  /\ Cardinality(racks) = 11
  /\ rack_occupancy[11] # <<>>
  /\ \E r \in DOMAIN rack_occupancy : Len(rack_occupancy[r]) >= 2

---------------------------------------------------------------------------
(* What the call writes.                                                   *)

\* The pairs <<rack, index>> of the entries of device d.
OccupancyEntries(d) ==
  UNION {{<<r, i>> : i \in EntriesOf(d, r)} : r \in DOMAIN rack_occupancy}

Queued(b, d) == \E i \in 1..Len(b.tasks) : b.tasks[i] = d

\* Device d is written, queued or saved in this step.
Touched(d) ==
  \/ location'[d] # location[d]
  \/ position'[d] # position[d]
  \/ saved'[d] # saved[d]
  \/ (Queued(batch', d) /\ ~Queued(batch, d))

UpdateStep == pc = "persist" /\ pc' = "execute"

\* C27: a step of the call touches only devices that have an entry in
\* rack_occupancy; the update loop gives each of them the rack and the
\* position of one of its entries and queues its save, and leaves every
\* other device with the location and position it had and no save queued.
C27_OnlyPlacedWritten ==
  [][ /\ \A d \in Devs : Touched(d) => OccupancyEntries(d) # {}
      /\ UpdateStep =>
           \A d \in Devs :
             IF OccupancyEntries(d) = {}
             THEN /\ location'[d] = location[d]
                  /\ position'[d] = position[d]
                  /\ ~Queued(batch', d)
             ELSE /\ Queued(batch', d)
                  /\ \E e \in OccupancyEntries(d) :
                       /\ location'[d] = <<e[1]>>
                       /\ position'[d] = <<rack_occupancy[e[1]][e[2]].position>>
    ]_vars

\* A call ended that placed and saved one leaf, skipped another for its
\* number and had a firewall among its devices: the two are as before.
C27_Witness ==
  /\ pc = "done"
  /\ ~rerun
  /\ \E d \in Devs : IsLeaf(d) /\ saved[d] # <<>> /\ location[d] # <<>>
  /\ \E d \in Devs :
       /\ IsLeaf(d)
       /\ \E i \in 1..Len(warnings) :
            warnings[i].device = d /\ warnings[i].msg = "exceeds rack count"
       /\ location[d] = <<>> /\ position[d] = <<>> /\ saved[d] = <<>>
  /\ \E d \in Devs :
       /\ devices[d].role = "dc_firewall"
       /\ location[d] = <<>> /\ position[d] = <<>> /\ saved[d] = <<>>

---------------------------------------------------------------------------
(* The Create-DC workflow.                                                 *)

\* The step is one of the running workflow, not the start of a new one.
SameWorkflow == dc_creation # <<>> /\ dc_creation' # <<>> /\ wf_count' = wf_count

\* The flags of a workflow state say how far it has got.
FlagsMatchStep(t) ==
  /\ t.step \in 1..5
  /\ t.branch_created <=> t.step >= 2
  /\ t.dc_created <=> t.step >= 3
  /\ t.pc_created <=> t.step = 5
  /\ t.pc_created <=> t.pc_url # <<>>

\* On the server every datacenter is in a created branch and every
\* proposed change is for a branch that has a datacenter.
ServerInOrder(srv) ==
  /\ \A dc \in srv.datacenters : dc[1] \in srv.branches
  /\ \A pch \in srv.proposed_changes : \E dc \in srv.datacenters : dc[1] = pch[1]

\* C28: after every step of the workflow, step is in 1..5 and the flags
\* match it (branch_created iff step >= 2, dc_created iff step >= 3,
\* pc_created iff step = 5, with pc_url set); within a workflow step never
\* decreases, and a step of 1..4 that ends without error adds exactly 1;
\* the server never has a datacenter without its branch nor a proposed
\* change without its datacenter.
C28_StepsAndFlagsAgree ==
  [][ /\ dc_creation' # <<>> => FlagsMatchStep(dc_creation'[1])
      /\ ServerInOrder(infrahub')
      /\ SameWorkflow =>
           /\ dc_creation'[1].step \in {dc_creation[1].step, dc_creation[1].step + 1}
           /\ (dc_creation'[1].error = <<>> /\ dc_creation[1].step < 5)
                => dc_creation'[1].step = dc_creation[1].step + 1
    ]_vars

\* A second workflow has run to its end after the first one.
C28_Witness ==
  /\ wf_count = 2
  /\ dc_creation # <<>>
  /\ dc_creation[1].step = 5
  /\ ~dc_creation[1].active
  /\ dc_creation[1].pc_url = <<2>>
  /\ infrahub.proposed_changes # {}

SameProgress(s, t) ==
  /\ t.step = s.step
  /\ t.branch_created = s.branch_created
  /\ t.dc_created = s.dc_created
  /\ t.pc_created = s.pc_created
  /\ t.pc_url = s.pc_url

WorkflowEnded ==
  /\ dc_creation # <<>>
  /\ ~dc_creation[1].active
  /\ dc_creation[1].error # <<>> \/ dc_creation[1].step = 5

\* C29: a step whose API call raises leaves the workflow inactive with the
\* error recorded and with step and the flags as they were, in step 1, 2
\* or 4 only; an inactive workflow executes no further step and touches the
\* server no more; a workflow is inactive only after an error or at step 5;
\* and every workflow that is started ends, by an error or at step 5.
C29_FailureStopsWorkflow ==
  /\ [][ /\ (SameWorkflow /\ dc_creation[1].error = <<>> /\ dc_creation'[1].error # <<>>)
              => /\ ~dc_creation'[1].active
                 /\ dc_creation[1].step \in {1, 2, 4}
                 /\ SameProgress(dc_creation[1], dc_creation'[1])
                 /\ infrahub' = infrahub
         /\ (SameWorkflow /\ ~dc_creation[1].active)
              => dc_creation' = dc_creation /\ infrahub' = infrahub
         /\ (dc_creation' # <<>> /\ ~dc_creation'[1].active)
              => dc_creation'[1].error # <<>> \/ dc_creation'[1].step = 5
       ]_vars
  /\ \A k \in 1..MaxWorkflows :
       (wf_count = k /\ dc_creation_active) ~> (wf_count = k /\ WorkflowEnded)

\* The second workflow of a session stopped at the failure of
\* create_datacenter, its branch created.
C29_Witness ==
  /\ wf_count = 2
  /\ dc_creation # <<>>
  /\ ~dc_creation[1].active
  /\ dc_creation[1].error = <<"Failed to create datacenter">>
  /\ dc_creation[1].step = 2
  /\ dc_creation[1].branch_created
  /\ ~dc_creation[1].dc_created
  /\ dc_creation[1].branch_name \in infrahub.branches

---------------------------------------------------------------------------
(* The bootstrap script.                                                   *)

\* Everything main runs after the readiness check, in the order of the
\* script.
BootstrapOrder ==
  << "schema load", "menu load", "object load bootstrap", "object load security",
     "populate_security_relationships", "repository add", "sync wait",
     "object load events" >>

\* Number of load steps, the first entries of the order.
LoadStepCount == Len(BootstrapOrder) - 3

\* The load steps that have run and failed.
FailedLoadSteps == {i \in 1..Len(ran) : i <= LoadStepCount /\ ~ran[i].ok}

AllLoadStepsOk == Len(ran) >= LoadStepCount /\ FailedLoadSteps = {}

\* C30: what main has run is a prefix of the script's order, run only
\* after a successful readiness check and only after every earlier load
\* step succeeded; a failed readiness check or load step is the last thing
\* done and main has returned 1; main returns 0 exactly when it has
\* returned after a successful readiness check and five successful load
\* steps, and then the repository add, the sync wait and the event-actions
\* load have all run, whatever their outcome.
C30_StopsAtFirstFailure ==
  /\ Len(ran) <= Len(BootstrapOrder)
  /\ \A i \in 1..Len(ran) :
       /\ ran[i].command = BootstrapOrder[i]
       /\ ready = <<TRUE>>
       /\ \A j \in 1..(i - 1) : j <= LoadStepCount => ran[j].ok
  /\ ready = <<FALSE>> => ran = <<>> /\ returned = <<1>>
  /\ \A i \in FailedLoadSteps : Len(ran) = i /\ returned = <<1>>
  /\ returned \in {<<>>, <<0>>, <<1>>}
  /\ returned = <<0>> <=> (bs_pc = "returned" /\ ready = <<TRUE>> /\ AllLoadStepsOk)
  /\ returned = <<0>> => Len(ran) = Len(BootstrapOrder)
  /\ returned = <<1>> => (ready = <<FALSE>> \/ FailedLoadSteps # {})

\* main returned 0 though the repository could not be added and the event
\* actions failed to load, after a readiness check that had to retry.
C30_Witness ==
  /\ returned = <<0>>
  /\ attempt > 0
  /\ Len(ran) = 8
  /\ ~ran[6].ok
  /\ ~ran[8].ok

====
